---- MODULE Spec2Model ----
(***************************************************************************)
(* Replay and cross-validation tools of market-sim.                        *)
(*                                                                         *)
(*   Spec   the OrderBook of tools/visualize_book.py (identical to the one *)
(*          of tools/visualizer/order_book.py) driven over a delta stream: *)
(*          the stream is produced forward, one delta at a time, and then  *)
(*          navigated backward (apply_reverse_delta) and forward again.    *)
(*   SpecV  CrossValidator.validate_all of tools/testing/cross_validator.py *)
(*          with the StateComparator and the PnLTracker, run on the files  *)
(*          a reference engine wrote: deltas.csv, trades.csv, states/.     *)
(***************************************************************************)
EXTENDS Integers, Sequences, FiniteSets, TLC

\* ------------------------------------------------------------------ bounds
MaxLen == 3
MaxId  == 3
MaxTs  == 1
MaxQty == 2
MaxSnaps == 2
MaxTrades == 3
MaxRows == 4
MaxTick == 3
MaxDeltas == 3
MaxFills == 4
MaxAge == 2
MaxBuckets == 4

Sides   == {"BUY", "SELL"}
Prices  == {10, 11}
Clients == {100}

\* the price the deltas of ids that never rested carry
LowPrice == CHOOSE p \in Prices : \A q \in Prices : p <= q

VARIABLES
    book,      \* the OrderBook object
    stream,    \* the deltas of the file produced so far, in file order
    cursor,    \* number of deltas of the stream currently applied to the book
    states,    \* states[k+1]: get_book_state recorded after the first k forward applies
    phase,     \* "gen": only forward applies so far; "rev": forward applies, then
               \* only reverse applies; "nav": any later mix of the two
    \* --- the cross-validation run
    instruments,     \* instrument ids of the reference engine
    states_dir,      \* sequence numbers of the state files in states/
    file_order,      \* "append": rows reach the files in emission order;
                     \* "prepend": the writer puts each new row first
    deltas_file,     \* rows of deltas.csv, in file order
    trades_file,     \* rows of trades.csv, in file order
    instrument_ids,  \* CrossValidator.instrument_ids
    state_files,     \* validate_all: the sorted glob, as sequence numbers
    cpp_states,      \* what _load_cpp_state returned, one entry per iteration
    all_deltas,      \* validate_all: the sorted deltas
    all_trades,      \* validate_all: the sorted trades
    books,           \* validate_all: instrument id -> OrderBook
    pnl,             \* PnLTracker.pnl
    delta_idx,       \* validate_all: deltas consumed
    trade_idx,       \* validate_all: trades consumed
    results,         \* the ComparisonResults yielded so far
    applied_deltas,  \* history: the apply_delta calls made, in call order
    applied_trades,  \* history: the on_trade calls made, in call order
    pc,              \* "off", "emit": the engine runs, "created": validate_all
                     \* called, "running": suspended at a yield, "done"
    \* --- a StateComparator called on its own
    cmp_cpp_state,   \* the cpp_state argument
    cmp_py_books,    \* the py_books argument
    cmp_py_pnl,      \* the py_pnl argument
    cmp_results,     \* the ComparisonResults returned so far
    \* --- a DeltaIndex
    idx_file,        \* the data rows of the deltas file, in file order
    delta_index,     \* the DeltaIndex object: timestamps, _offsets, _header_end
    idx_out,         \* the calls made on the index, with what they returned
    \* --- the adverse-selection analyzer
    as_deltas,       \* the rows of deltas.csv
    as_trades,       \* the rows of trades.csv
    as_out,          \* the runs made: order lifecycle and fills
    sum_fills,       \* the fills argument of compute_summary
    buckets,         \* the num_buckets argument of compute_summary (--buckets)
    summary,         \* what compute_summary returned: boundaries, stats_list
    \* --- an interactive session (interactive_mode)
    nav_idx,         \* interactive_mode's idx: position in the index, from 0
    current_deltas,  \* the deltas of the tick at idx
    cmd,             \* the command read last: "" before the first, "n", "p", "jump"
    \* --- the cross-validation harness (tools/testing/harness.py)
    tests,           \* HarnessResult.tests of the run main() made
    exit_code,       \* what main() returned, -1 before it has
    validated        \* the _validate_test_output calls made: directory, result

bvars == <<book, stream, cursor, states, phase>>

vvars == <<instruments, file_order, states_dir, deltas_file, trades_file, instrument_ids,
           state_files, cpp_states, all_deltas, all_trades, books, pnl,
           delta_idx, trade_idx, results, applied_deltas, applied_trades, pc>>

cvars == <<cmp_cpp_state, cmp_py_books, cmp_py_pnl, cmp_results>>

\* the objects a run of the book or of the validator does not touch
ivars == <<idx_file, delta_index, idx_out>>

avars == <<as_deltas, as_trades, as_out, sum_fills, buckets, summary>>

nvars == <<nav_idx, current_deltas, cmd>>

tvars == <<tests, exit_code, validated>>

hvars == <<cvars, ivars, avars, nvars, tvars>>

vars == <<bvars, vvars, hvars>>

\* ------------------------------------------------------------- dictionaries
MapPut(m, k, v) == [x \in (DOMAIN m) \cup {k} |-> IF x = k THEN v ELSE m[x]]

MapDel(m, k) == [x \in (DOMAIN m) \ {k} |-> m[x]]

MapGet(m, k, default) == IF k \in DOMAIN m THEN m[k] ELSE default

EmptyMap == [x \in {} |-> 0]

\* ------------------------------------------------------------------ deques
RemoveAt(q, i) == SubSeq(q, 1, i - 1) \o SubSeq(q, i + 1, Len(q))

\* list.insert(pos, x) with a 0-based position
InsertAt(q, pos, x) == SubSeq(q, 1, pos) \o <<x>> \o SubSeq(q, pos + 1, Len(q))

\* 1-based index of the first order of q with this id, 0 when there is none
IndexOf(q, id) ==
    IF \E i \in 1..Len(q) : q[i].order_id = id
    THEN CHOOSE i \in 1..Len(q) :
            /\ q[i].order_id = id
            /\ \A j \in 1..(i - 1) : q[j].order_id # id
    ELSE 0

\* ---------------------------------------------------------------- OrderBook
Order(order_id, client_id, side, price, quantity, timestamp) ==
    [order_id |-> order_id, client_id |-> client_id, side |-> side,
     price |-> price, quantity |-> quantity, timestamp |-> timestamp]

EmptyBook ==
    [bids |-> EmptyMap, asks |-> EmptyMap, registry |-> EmptyMap,
     order_add_timestamps |-> EmptyMap, timestamp |-> 0]

_get_book(b, side) == IF side = "BUY" THEN b.bids ELSE b.asks

SetSide(b, side, m) ==
    IF side = "BUY" THEN [b EXCEPT !.bids = m] ELSE [b EXCEPT !.asks = m]

\* a book that queues a new order ahead of the resting ones
_add_order_front(b, order) ==
    LET bk == _get_book(b, order.side)
        q  == IF order.price \in DOMAIN bk THEN bk[order.price] ELSE <<>>
    IN  [SetSide(b, order.side, MapPut(bk, order.price, <<order>> \o q))
            EXCEPT !.registry = MapPut(@, order.order_id, <<order.price, order.side>>)]

_add_order(b, order) ==
    LET bk == _get_book(b, order.side)
        q  == MapGet(bk, order.price, <<>>)
    IN  [SetSide(b, order.side, MapPut(bk, order.price, Append(q, order)))
            EXCEPT !.registry = MapPut(@, order.order_id, <<order.price, order.side>>)]

\* the loop of _add_order_sorted: the 0-based position of the first existing
\* order with a strictly greater timestamp, the queue's length when there is none
InsertPos(q, ts) ==
    IF \E i \in 1..Len(q) : q[i].timestamp > ts
    THEN (CHOOSE i \in 1..Len(q) :
            /\ q[i].timestamp > ts
            /\ \A j \in 1..(i - 1) : ~(q[j].timestamp > ts)) - 1
    ELSE Len(q)

_add_order_sorted(b, order) ==
    LET bk == _get_book(b, order.side)
        nq == IF order.price \notin DOMAIN bk
              THEN <<order>>
              ELSE InsertAt(bk[order.price],
                            InsertPos(bk[order.price], order.timestamp), order)
    IN  [SetSide(b, order.side, MapPut(bk, order.price, nq))
            EXCEPT !.registry = MapPut(@, order.order_id, <<order.price, order.side>>)]

\* a removal that also forgets when the order was added
_remove_order_forgets(b, order_id) ==
    IF order_id \notin DOMAIN b.registry THEN b
    ELSE LET price == b.registry[order_id][1]
             side  == b.registry[order_id][2]
             bk    == _get_book(b, side)
             unreg == [b EXCEPT !.registry = MapDel(@, order_id),
                                !.order_add_timestamps = MapDel(@, order_id)]
         IN  IF price \notin DOMAIN bk THEN unreg
             ELSE LET q == bk[price]
                      i == IndexOf(q, order_id)
                  IN  IF i = 0 THEN unreg
                      ELSE IF Len(q) = 1
                           THEN SetSide(unreg, side, MapDel(bk, price))
                           ELSE SetSide(unreg, side, MapPut(bk, price, RemoveAt(q, i)))

_remove_order(b, order_id) ==
    IF order_id \notin DOMAIN b.registry THEN b
    ELSE LET price == b.registry[order_id][1]
             side  == b.registry[order_id][2]
             bk    == _get_book(b, side)
             unreg == [b EXCEPT !.registry = MapDel(@, order_id)]
         IN  IF price \notin DOMAIN bk THEN unreg
             ELSE LET q == bk[price]
                      i == IndexOf(q, order_id)
                  IN  IF i = 0 THEN unreg
                      ELSE IF Len(q) = 1
                           THEN SetSide(unreg, side, MapDel(bk, price))
                           ELSE SetSide(unreg, side, MapPut(bk, price, RemoveAt(q, i)))

\* a quantity update that moves the order to the tail of its queue
_update_order_quantity_requeue(b, order_id, new_quantity) ==
    IF order_id \notin DOMAIN b.registry THEN b
    ELSE LET price == b.registry[order_id][1]
             side  == b.registry[order_id][2]
             bk    == _get_book(b, side)
         IN  IF price \notin DOMAIN bk THEN b
             ELSE LET q == bk[price]
                      i == IndexOf(q, order_id)
                  IN  IF i = 0 THEN b
                      ELSE SetSide(b, side,
                               MapPut(bk, price,
                                   Append(RemoveAt(q, i),
                                          [q[i] EXCEPT !.quantity = new_quantity])))

_update_order_quantity(b, order_id, new_quantity) ==
    IF order_id \notin DOMAIN b.registry THEN b
    ELSE LET price == b.registry[order_id][1]
             side  == b.registry[order_id][2]
             bk    == _get_book(b, side)
         IN  IF price \notin DOMAIN bk THEN b
             ELSE LET q == bk[price]
                      i == IndexOf(q, order_id)
                  IN  IF i = 0 THEN b
                      ELSE SetSide(b, side,
                               MapPut(bk, price, [q EXCEPT ![i].quantity = new_quantity]))

\* mutant of ForwardFill: a full fill also forgets when the order was added
ForwardFill_forgets(b, delta) ==
    IF delta.remaining_qty = 0
    THEN [_remove_order(b, delta.order_id)
            EXCEPT !.order_add_timestamps = MapDel(@, delta.order_id)]
    ELSE _update_order_quantity(b, delta.order_id, delta.remaining_qty)

\* the FILL branch of apply_delta
ForwardFill(b, delta) ==
    IF delta.remaining_qty = 0
    THEN _remove_order(b, delta.order_id)
    ELSE _update_order_quantity(b, delta.order_id, delta.remaining_qty)

apply_delta(b, delta) ==
    LET b0 == [b EXCEPT !.timestamp = delta.timestamp]
        ts == delta.timestamp
    IN  CASE delta.delta_type = "ADD" ->
                [_add_order(b0, Order(delta.order_id, delta.client_id, delta.side,
                                      delta.price, delta.remaining_qty, ts))
                    EXCEPT !.order_add_timestamps = MapPut(@, delta.order_id, ts)]
          [] delta.delta_type = "FILL" -> ForwardFill(b0, delta)
          [] delta.delta_type = "CANCEL" ->
                _remove_order(b0, delta.order_id)
          [] delta.delta_type = "MODIFY" ->
                [_add_order(_remove_order(b0, delta.order_id),
                            Order(delta.new_order_id, delta.client_id, delta.side,
                                  delta.new_price, delta.new_quantity, ts))
                    EXCEPT !.order_add_timestamps = MapPut(@, delta.new_order_id, ts)]
          [] OTHER -> b0

\* mutant of ReverseFill: a fully filled order is re-added whether or not it
\* ever rested
ReverseFill_always(b, delta) ==
    LET prev_quantity == delta.remaining_qty + delta.quantity
    IN  IF delta.remaining_qty = 0
        THEN _add_order_sorted(b,
                 Order(delta.order_id, delta.client_id, delta.side, delta.price,
                       prev_quantity,
                       MapGet(b.order_add_timestamps, delta.order_id, b.timestamp)))
        ELSE _update_order_quantity(b, delta.order_id, prev_quantity)

\* the FILL branch of apply_reverse_delta
ReverseFill(b, delta) ==
    LET prev_quantity == delta.remaining_qty + delta.quantity
    IN  IF delta.remaining_qty = 0
        THEN IF delta.order_id \in DOMAIN b.order_add_timestamps
             THEN _add_order_sorted(b,
                      Order(delta.order_id, delta.client_id, delta.side, delta.price,
                            prev_quantity, b.order_add_timestamps[delta.order_id]))
             ELSE b
        ELSE _update_order_quantity(b, delta.order_id, prev_quantity)

apply_reverse_delta(b, delta, prev_timestamp) ==
    LET r ==
        CASE delta.delta_type = "ADD" ->
                [_remove_order(b, delta.order_id)
                    EXCEPT !.order_add_timestamps = MapDel(@, delta.order_id)]
          [] delta.delta_type = "FILL" -> ReverseFill(b, delta)
          [] delta.delta_type = "CANCEL" ->
                _add_order_sorted(b,
                    Order(delta.order_id, delta.client_id, delta.side, delta.price,
                          delta.remaining_qty,
                          MapGet(b.order_add_timestamps, delta.order_id, prev_timestamp)))
          [] delta.delta_type = "MODIFY" ->
                LET b1 == [_remove_order(b, delta.new_order_id)
                             EXCEPT !.order_add_timestamps = MapDel(@, delta.new_order_id)]
                IN  _add_order_sorted(b1,
                        Order(delta.order_id, delta.client_id, delta.side, delta.price,
                              delta.quantity,
                              MapGet(b1.order_add_timestamps, delta.order_id,
                                     prev_timestamp)))
          [] OTHER -> b
    IN  [r EXCEPT !.timestamp = prev_timestamp]

\* get_order: the order the registry leads to, or the record NoOrder
NoOrder == [order_id |-> -1]

get_order(b, order_id) ==
    IF order_id \notin DOMAIN b.registry THEN NoOrder
    ELSE LET price == b.registry[order_id][1]
             bk    == _get_book(b, b.registry[order_id][2])
         IN  IF price \notin DOMAIN bk THEN NoOrder
             ELSE IF IndexOf(bk[price], order_id) = 0 THEN NoOrder
                  ELSE bk[price][IndexOf(bk[price], order_id)]

\* the comparable state the tests record: (order_id, quantity) in queue order
\* at every price, the registry and the timestamp
QueueIds(q) == [i \in 1..Len(q) |-> <<q[i].order_id, q[i].quantity>>]

get_book_state(b) ==
    [timestamp |-> b.timestamp,
     bids      |-> [p \in DOMAIN b.bids |-> QueueIds(b.bids[p])],
     asks      |-> [p \in DOMAIN b.asks |-> QueueIds(b.asks[p])],
     registry  |-> b.registry]

\* best_bid, best_ask and spread; no value is <<>>, a value v is <<v>>.
\* The first key of bids is its highest price, of asks its lowest.
spread(b) ==
    LET best_bid == IF DOMAIN b.bids = {} THEN <<>>
                    ELSE <<CHOOSE p \in DOMAIN b.bids : \A q \in DOMAIN b.bids : p >= q>>
        best_ask == IF DOMAIN b.asks = {} THEN <<>>
                    ELSE <<CHOOSE p \in DOMAIN b.asks : \A q \in DOMAIN b.asks : p <= q>>
    IN  IF best_bid # <<>> /\ best_ask # <<>> THEN <<best_ask[1] - best_bid[1]>>
        ELSE <<>>

\* ------------------------------------- tools/visualizer/order_book.OrderBook
\* The OrderBook class of tools/visualizer/order_book.py, the one the
\* validator and the comparator import, translated method by method.  A book
\* is the record of its five attributes, as above.
OB_get_book(b, side) == IF side = "BUY" THEN b.bids ELSE b.asks

OB_set_book(b, side, levels) ==
    IF side = "BUY" THEN [b EXCEPT !.bids = levels] ELSE [b EXCEPT !.asks = levels]

OB_add_order(b, order) ==
    LET levels == OB_get_book(b, order.side)
        queue  == IF order.price \notin DOMAIN levels THEN <<>> ELSE levels[order.price]
        b1     == OB_set_book(b, order.side,
                              MapPut(levels, order.price, Append(queue, order)))
    IN  [b1 EXCEPT !.registry = MapPut(@, order.order_id, <<order.price, order.side>>)]

\* an insertion that always goes to the tail of the queue
OB_add_order_sorted_tail(b, order) == OB_add_order(b, order)

OB_add_order_sorted(b, order) ==
    LET levels == OB_get_book(b, order.side)
        queue  == IF order.price \notin DOMAIN levels THEN <<>> ELSE levels[order.price]
        \* the loop over the queue: insert_pos once the first i existing
        \* orders have been passed; the loop breaks at a later order
        RECURSIVE Loop(_, _)
        Loop(i, insert_pos) ==
            IF i >= Len(queue) THEN insert_pos
            ELSE IF queue[i + 1].timestamp > order.timestamp THEN i
            ELSE Loop(i + 1, i + 1)
        b1 == IF order.price \notin DOMAIN levels
              THEN OB_set_book(b, order.side, MapPut(levels, order.price, <<order>>))
              ELSE OB_set_book(b, order.side,
                       MapPut(levels, order.price,
                              InsertAt(queue, Loop(0, 0), order)))
    IN  [b1 EXCEPT !.registry = MapPut(@, order.order_id, <<order.price, order.side>>)]

OB_remove_order(b, order_id) ==
    IF order_id \notin DOMAIN b.registry THEN b
    ELSE LET price   == b.registry[order_id][1]
             side    == b.registry[order_id][2]
             levels  == OB_get_book(b, side)
             dropped == [b EXCEPT !.registry = MapDel(@, order_id)]
         IN  IF price \notin DOMAIN levels THEN dropped
             ELSE LET queue == levels[price]
                      hits  == {i \in 1..Len(queue) : queue[i].order_id = order_id}
                  IN  IF hits = {} THEN dropped
                      ELSE LET i    == CHOOSE h \in hits : \A k \in hits : h <= k
                               rest == RemoveAt(queue, i)
                           IN  OB_set_book(dropped, side,
                                   IF rest = <<>> THEN MapDel(levels, price)
                                   ELSE MapPut(levels, price, rest))

OB_update_order_quantity(b, order_id, new_quantity) ==
    IF order_id \notin DOMAIN b.registry THEN b
    ELSE LET price  == b.registry[order_id][1]
             side   == b.registry[order_id][2]
             levels == OB_get_book(b, side)
         IN  IF price \notin DOMAIN levels THEN b
             ELSE LET queue == levels[price]
                      hits  == {i \in 1..Len(queue) : queue[i].order_id = order_id}
                  IN  IF hits = {} THEN b
                      ELSE LET i == CHOOSE h \in hits : \A k \in hits : h <= k
                           IN  OB_set_book(b, side,
                                   MapPut(levels, price,
                                          [queue EXCEPT ![i].quantity = new_quantity]))

OB_apply_delta(b, delta) ==
    LET b0        == [b EXCEPT !.timestamp = delta.timestamp]
        order_id  == delta.order_id
        remaining == delta.remaining_qty
    IN  IF delta.delta_type = "ADD"
        THEN [OB_add_order(b0, Order(order_id, delta.client_id, delta.side, delta.price,
                                     remaining, b0.timestamp))
                EXCEPT !.order_add_timestamps = MapPut(@, order_id, b0.timestamp)]
        ELSE IF delta.delta_type = "FILL"
        THEN IF remaining = 0 THEN OB_remove_order(b0, order_id)
             ELSE OB_update_order_quantity(b0, order_id, remaining)
        ELSE IF delta.delta_type = "CANCEL"
        THEN OB_remove_order(b0, order_id)
        ELSE IF delta.delta_type = "MODIFY"
        THEN [OB_add_order(OB_remove_order(b0, order_id),
                           Order(delta.new_order_id, delta.client_id, delta.side,
                                 delta.new_price, delta.new_quantity, b0.timestamp))
                EXCEPT !.order_add_timestamps =
                            MapPut(@, delta.new_order_id, b0.timestamp)]
        ELSE b0

OB_apply_reverse_delta(b, delta, prev_timestamp) ==
    LET order_id  == delta.order_id
        remaining == delta.remaining_qty
        Restored(bk, quantity) ==
            Order(order_id, delta.client_id, delta.side, delta.price, quantity,
                  IF order_id \in DOMAIN bk.order_add_timestamps
                  THEN bk.order_add_timestamps[order_id] ELSE prev_timestamp)
        done ==
            IF delta.delta_type = "ADD"
            THEN [OB_remove_order(b, order_id)
                    EXCEPT !.order_add_timestamps = MapDel(@, order_id)]
            ELSE IF delta.delta_type = "FILL"
            THEN IF remaining = 0
                 THEN IF order_id \in DOMAIN b.order_add_timestamps
                      THEN OB_add_order_sorted(b, Restored(b, remaining + delta.quantity))
                      ELSE b
                 ELSE OB_update_order_quantity(b, order_id, remaining + delta.quantity)
            ELSE IF delta.delta_type = "CANCEL"
            THEN OB_add_order_sorted(b, Restored(b, remaining))
            ELSE IF delta.delta_type = "MODIFY"
            THEN LET b1 == [OB_remove_order(b, delta.new_order_id)
                              EXCEPT !.order_add_timestamps =
                                          MapDel(@, delta.new_order_id)]
                 IN  OB_add_order_sorted(b1, Restored(b1, delta.quantity))
            ELSE b
    IN  [done EXCEPT !.timestamp = prev_timestamp]

\* ------------------------------------------------------------ delta rows
Delta(ts, seq, type, id, client, side, price, qty, rem, nid, nprice, nqty) ==
    [timestamp |-> ts, sequence_num |-> seq, delta_type |-> type, order_id |-> id,
     client_id |-> client, instrument_id |-> 1, side |-> side, price |-> price,
     quantity |-> qty, remaining_qty |-> rem, new_order_id |-> nid,
     new_price |-> nprice, new_quantity |-> nqty]

\* ids the stream has used so far, as order_id or as new_order_id
UsedIds(s) ==
    {s[i].order_id : i \in 1..Len(s)} \cup
    {s[i].new_order_id : i \in {j \in 1..Len(s) : s[j].delta_type = "MODIFY"}}

Max(S) == CHOOSE x \in S : \A y \in S : y <= x

\* the engine hands out order ids in increasing order
NextId(s) == IF UsedIds(s) = {} THEN 1 ELSE Max(UsedIds(s)) + 1

\* a delta's timestamp is the book's or a later one
NextTs == {t \in {book.timestamp, book.timestamp + 1} : t <= MaxTs}

\* orders of the engine that the book holds; the engine hands out no id 0
Resting == {id \in DOMAIN book.registry : id # 0 /\ get_order(book, id) # NoOrder}

\* ids the stream used whose order the book no longer holds
Stale == (UsedIds(stream) \cap (1..MaxId)) \ DOMAIN book.registry

\* the last delta of the stream that names the id
LastIndex(s, id) ==
    Max({i \in 1..Len(s) : s[i].order_id = id
            \/ (s[i].delta_type = "MODIFY" /\ s[i].new_order_id = id)})

\* side and price under which the stream last named the id
LastSide(s, id) == s[LastIndex(s, id)].side

LastPrice(s, id) ==
    LET d == s[LastIndex(s, id)]
    IN  IF d.delta_type = "MODIFY" /\ d.new_order_id = id THEN d.new_price ELSE d.price

BookSize(b) ==
    LET Count[S \in SUBSET (DOMAIN b.bids \cup DOMAIN b.asks), side \in Sides] ==
            IF S = {} THEN 0
            ELSE LET p == CHOOSE x \in S : TRUE
                 IN  Len(_get_book(b, side)[p]) + Count[S \ {p}, side]
    IN  Count[DOMAIN b.bids, "BUY"] + Count[DOMAIN b.asks, "SELL"]

\* --------------------------------------------------------------- actions
\* no validation run
ValidatorOff ==
    /\ instruments = {}
    /\ file_order = "append"
    /\ states_dir = {}
    /\ deltas_file = <<>>
    /\ trades_file = <<>>
    /\ instrument_ids = {}
    /\ state_files = <<>>
    /\ cpp_states = <<>>
    /\ all_deltas = <<>>
    /\ all_trades = <<>>
    /\ books = EmptyMap
    /\ pnl = EmptyMap
    /\ delta_idx = 0
    /\ trade_idx = 0
    /\ results = <<>>
    /\ applied_deltas = <<>>
    /\ applied_trades = <<>>
    /\ pc = "off"

\* no book is replayed
BookOff ==
    /\ book = EmptyBook
    /\ stream = <<>>
    /\ cursor = 0
    /\ states = <<get_book_state(EmptyBook)>>
    /\ phase = "off"

\* no comparator is called on its own
ComparatorOff ==
    /\ cmp_cpp_state = [sequence_num |-> -1, timestamp |-> -1,
                        order_books |-> EmptyMap, pnl |-> EmptyMap]
    /\ cmp_py_books = EmptyMap
    /\ cmp_py_pnl = EmptyMap
    /\ cmp_results = <<>>

\* no index is built
IndexOff ==
    /\ idx_file = <<>>
    /\ delta_index = [timestamps |-> <<>>, _offsets |-> <<>>, _header_end |-> 1]
    /\ idx_out = <<>>

\* no analysis is run
AnalyzerOff ==
    /\ as_deltas = <<>>
    /\ as_trades = <<>>
    /\ as_out = <<>>
    /\ sum_fills = <<>>
    /\ buckets = 0
    /\ summary = <<>>

\* no interactive session
NavigatorOff ==
    /\ nav_idx = 0
    /\ current_deltas = <<>>
    /\ cmd = ""

\* no harness has run
TestHarnessOff ==
    /\ tests = <<>>
    /\ exit_code = -1
    /\ validated = <<>>

HarnessOff ==
    /\ ComparatorOff
    /\ IndexOff
    /\ AnalyzerOff
    /\ NavigatorOff
    /\ TestHarnessOff

Init ==
    /\ book = EmptyBook
    /\ stream = <<>>
    /\ cursor = 0
    /\ states = <<get_book_state(EmptyBook)>>
    /\ phase = "gen"
    /\ ValidatorOff
    /\ HarnessOff

CanProduce == phase = "gen" /\ cursor = Len(stream) /\ Len(stream) < MaxLen

Produce(d) ==
    /\ book' = apply_delta(book, d)
    /\ stream' = Append(stream, d)
    /\ cursor' = cursor + 1
    /\ states' = Append(states, get_book_state(book'))
    /\ UNCHANGED <<vvars, hvars>>
    /\ phase' = "gen"

\* a new order comes to rest
Add ==
    /\ CanProduce
    /\ NextId(stream) <= MaxId
    /\ \E ts \in NextTs, c \in Clients, side \in Sides, price \in Prices :
          Produce(Delta(ts, Len(stream), "ADD", NextId(stream), c, side, price,
                        MaxQty, MaxQty, 0, 0, 0))

\* a resting order is matched, partly or fully
FillResting ==
    /\ CanProduce
    /\ \E ts \in NextTs, id \in Resting :
          LET o == get_order(book, id)
          IN  \E qty \in 1..o.quantity :
                 Produce(Delta(ts, Len(stream), "FILL", id, o.client_id, o.side, o.price,
                               qty, o.quantity - qty, 0, 0, 0))

\* an aggressor is matched on arrival, partly or fully: its id never rested
FillAggressor ==
    /\ CanProduce
    /\ NextId(stream) <= MaxId
    /\ \E ts \in NextTs, c \in Clients, side \in Sides, rem \in {0, 1} :
          Produce(Delta(ts, Len(stream), "FILL", NextId(stream), c, side, LowPrice,
                        1, rem, 0, 0, 0))

CancelResting ==
    /\ CanProduce
    /\ \E ts \in NextTs, id \in Resting :
          LET o == get_order(book, id)
          IN  Produce(Delta(ts, Len(stream), "CANCEL", id, o.client_id, o.side, o.price,
                            o.quantity, o.quantity, 0, 0, 0))

\* a CANCEL of an order that was already removed, or of an id that never rested
\* (tolerated by apply_delta)
CancelUnknown ==
    /\ CanProduce
    /\ \E ts \in NextTs, c \in Clients :
          \/ \E id \in Stale :
                Produce(Delta(ts, Len(stream), "CANCEL", id, c, LastSide(stream, id),
                              LastPrice(stream, id), 1, 1, 0, 0, 0))
          \/ /\ NextId(stream) <= MaxId
             /\ \E side \in Sides :
                   Produce(Delta(ts, Len(stream), "CANCEL", NextId(stream), c, side,
                                 LowPrice, 1, 1, 0, 0, 0))

\* a FILL of an order that was already removed
FillUnknown ==
    /\ CanProduce
    /\ \E ts \in NextTs, c \in Clients, id \in Stale, rem \in {0, 1} :
          Produce(Delta(ts, Len(stream), "FILL", id, c, LastSide(stream, id),
                        LastPrice(stream, id), 1, rem, 0, 0, 0))

\* a resting order is replaced by a new order with a new id
ModifyResting ==
    /\ CanProduce
    /\ NextId(stream) <= MaxId
    /\ \E ts \in NextTs, id \in Resting, nprice \in Prices, nqty \in 1..MaxQty :
          LET o == get_order(book, id)
          IN  Produce(Delta(ts, Len(stream), "MODIFY", id, o.client_id, o.side, o.price,
                            o.quantity, 0, NextId(stream), nprice, nqty))

\* a quantity-only MODIFY of a resting order: no replacement id
\* (new_order_id = 0), the price stays
ModifyQuantity ==
    /\ CanProduce
    /\ \E ts \in NextTs, id \in Resting, nqty \in 1..MaxQty :
          LET o == get_order(book, id)
          IN  Produce(Delta(ts, Len(stream), "MODIFY", id, o.client_id, o.side, o.price,
                            o.quantity, 0, 0, o.price, nqty))

\* a MODIFY of an order that was already removed, or of an id that never rested
ModifyUnknown ==
    /\ CanProduce
    /\ \E ts \in NextTs, c \in Clients, nprice \in Prices :
          \/ /\ NextId(stream) <= MaxId
             /\ \E id \in Stale :
                   Produce(Delta(ts, Len(stream), "MODIFY", id, c, LastSide(stream, id),
                                 LastPrice(stream, id), 1, 0, NextId(stream), nprice, 1))
          \/ /\ NextId(stream) + 1 <= MaxId
             /\ \E side \in Sides :
                   Produce(Delta(ts, Len(stream), "MODIFY", NextId(stream), c, side,
                                 LowPrice, 1, 0, NextId(stream) + 1, nprice, 1))

\* step back: undo the last applied delta, restoring the preceding timestamp
StepBack ==
    /\ cursor > 0
    /\ BookSize(book) <= MaxLen
    /\ book' = apply_reverse_delta(book, stream[cursor], states[cursor].timestamp)
    /\ cursor' = cursor - 1
    /\ phase' = IF phase = "gen" THEN "rev" ELSE phase
    /\ UNCHANGED <<stream, states>>
    /\ UNCHANGED <<vvars, hvars>>

\* step forward again over a delta of the stream that was undone
StepForward ==
    /\ cursor < Len(stream)
    /\ book' = apply_delta(book, stream[cursor + 1])
    /\ cursor' = cursor + 1
    /\ phase' = "nav"
    /\ UNCHANGED <<stream, states>>
    /\ UNCHANGED <<vvars, hvars>>

Next ==
    \/ Add
    \/ FillResting
    \/ FillAggressor
    \/ FillUnknown
    \/ CancelResting
    \/ CancelUnknown
    \/ ModifyResting
    \/ ModifyQuantity
    \/ ModifyUnknown
    \/ StepBack
    \/ StepForward

Spec == Init /\ [][Next]_vars

\* ================================================================ PnLTracker
PnLState == [long_position |-> 0, short_position |-> 0, cash |-> 0]

\* an _ensure_client that hands out a new entry every time
_ensure_client_new(p, client_id) == MapPut(p, client_id, PnLState)

_ensure_client(p, client_id) ==
    IF client_id \in DOMAIN p THEN p ELSE MapPut(p, client_id, PnLState)

\* an on_trade that assigns the buyer's cash where on_trade subtracts from it
on_trade_assigns(p, buyer_id, seller_id, price, quantity) ==
    LET trade_value == quantity * price
        p1 == _ensure_client(p, buyer_id)
        p2 == [p1 EXCEPT ![buyer_id].long_position = @ + quantity,
                         ![buyer_id].cash = 0 - trade_value]
        p3 == _ensure_client(p2, seller_id)
    IN  [p3 EXCEPT ![seller_id].short_position = @ + quantity,
                   ![seller_id].cash = @ + trade_value]

\* an on_trade that takes the seller's entry as it was before the buyer's
\* update
on_trade_stale(p, buyer_id, seller_id, price, quantity) ==
    LET trade_value == quantity * price
        p1 == _ensure_client(p, buyer_id)
        p2 == [p1 EXCEPT ![buyer_id].long_position = @ + quantity,
                         ![buyer_id].cash = @ - trade_value]
        p3 == _ensure_client(p2, seller_id)
        seller_pnl == _ensure_client(p, seller_id)[seller_id]
    IN  [p3 EXCEPT ![seller_id] =
            [seller_pnl EXCEPT !.short_position = @ + quantity,
                               !.cash = @ + trade_value]]

on_trade(p, buyer_id, seller_id, price, quantity) ==
    LET trade_value == quantity * price
        p1 == _ensure_client(p, buyer_id)
        p2 == [p1 EXCEPT ![buyer_id].long_position = @ + quantity,
                         ![buyer_id].cash = @ - trade_value]
        p3 == _ensure_client(p2, seller_id)
    IN  [p3 EXCEPT ![seller_id].short_position = @ + quantity,
                   ![seller_id].cash = @ + trade_value]

\* client_id -> dict of the three fields
get_state(p) ==
    [c \in DOMAIN p |-> [long_position  |-> p[c].long_position,
                         short_position |-> p[c].short_position,
                         cash           |-> p[c].cash]]

\* sum(values[c] for c in S)
RECURSIVE Sum(_, _)
Sum(values, S) ==
    IF S = {} THEN 0
    ELSE LET c == CHOOSE x \in S : TRUE
         IN  values[c] + Sum(values, S \ {c})

total_cash(p) == Sum([c \in DOMAIN p |-> p[c].cash], DOMAIN p)

\* net_position is long_position - short_position
total_net_position(p) ==
    Sum([c \in DOMAIN p |-> p[c].long_position - p[c].short_position], DOMAIN p)

\* ------------------------------------------------- PnLTracker on its own
\* tracker = PnLTracker(), then tracker.on_trade(...) any number of times;
\* pnl is tracker.pnl and applied_trades the calls made
Participants == {1, 2, 3}

OnTrade ==
    /\ pc = "off"
    /\ Len(applied_trades) < MaxTrades
    /\ \E buyer_id \in Participants, seller_id \in Participants,
          price \in Prices, quantity \in 0..MaxQty :
        /\ pnl' = on_trade(pnl, buyer_id, seller_id, price, quantity)
        /\ applied_trades' = Append(applied_trades,
                [timestamp |-> 0, trade_id |-> Len(applied_trades) + 1,
                 buyer_id |-> buyer_id, seller_id |-> seller_id,
                 price |-> price, quantity |-> quantity])
    /\ UNCHANGED <<instruments, file_order, states_dir, deltas_file, trades_file,
                   instrument_ids, state_files, cpp_states, all_deltas, all_trades,
                   books, delta_idx, trade_idx, results, applied_deltas, pc>>
    /\ UNCHANGED <<bvars, hvars>>

InitP ==
    /\ BookOff
    /\ ValidatorOff
    /\ HarnessOff

NextP ==
    \/ OnTrade

SpecP == InitP /\ [][NextP]_vars

\* ============================================================ StateComparator
tolerance == 0

Abs(x) == IF x < 0 THEN 0 - x ELSE x

RECURSIVE Ascending(_)
Ascending(S) ==
    IF S = {} THEN <<>>
    ELSE LET m == CHOOSE x \in S : \A y \in S : x <= y
         IN  <<m>> \o Ascending(S \ {m})

RECURSIVE Descending(_)
Descending(S) ==
    IF S = {} THEN <<>>
    ELSE LET m == CHOOSE x \in S : \A y \in S : y <= x
         IN  <<m>> \o Descending(S \ {m})

\* keys of one side of the book in the order of its SortedDict:
\* bids by descending price, asks by ascending price
SortedKeys(py_book_side, side) ==
    IF side = "BUY" THEN Descending(DOMAIN py_book_side)
    ELSE Ascending(DOMAIN py_book_side)

ComparisonResult(match, sequence_num, timestamp, differences) ==
    [match |-> match, sequence_num |-> sequence_num, timestamp |-> timestamp,
     differences |-> differences]

\* a comparison of orders that leaves the side out
_compare_orders_noside(cpp_order, py_order, context) ==
    LET Diff(field_name, cpp_val, py_val) ==
            IF cpp_val # py_val THEN << <<context, field_name, cpp_val, py_val>> >>
            ELSE <<>>
    IN  Diff("order_id", cpp_order.order_id, py_order.order_id)
        \o Diff("client_id", cpp_order.client_id, py_order.client_id)
        \o Diff("quantity", cpp_order.quantity, py_order.quantity)
        \o Diff("price", cpp_order.price, py_order.price)

_compare_orders(cpp_order, py_order, context) ==
    LET Diff(field_name, cpp_val, py_val) ==
            IF cpp_val # py_val THEN << <<context, field_name, cpp_val, py_val>> >>
            ELSE <<>>
    IN  Diff("order_id", cpp_order.order_id, py_order.order_id)
        \o Diff("client_id", cpp_order.client_id, py_order.client_id)
        \o Diff("quantity", cpp_order.quantity, py_order.quantity)
        \o Diff("price", cpp_order.price, py_order.price)
        \o Diff("side", cpp_order.side, py_order.side)

\* a comparison of one side that leaves the loop at the first level whose
\* price or queue length differs
_compare_side_stops(cpp_levels, py_book_side, side, instrument_id) ==
    LET side_name == IF side = "BUY" THEN "bid" ELSE "ask"
        py_prices == SortedKeys(py_book_side, side)
        count == IF Len(cpp_levels) # Len(py_prices)
                 THEN << <<instrument_id, side_name, "level count",
                           Len(cpp_levels), Len(py_prices)>> >>
                 ELSE <<>>
        Orders(i) ==
            LET cpp_orders == cpp_levels[i].orders
                py_orders  == py_book_side[py_prices[i]]
                Pairs[j \in 0..Len(cpp_orders)] ==
                    IF j = 0 THEN <<>>
                    ELSE Pairs[j - 1] \o
                         _compare_orders(cpp_orders[j], py_orders[j],
                             <<instrument_id, side_name, cpp_levels[i].price, j - 1>>)
            IN  IF Len(cpp_orders) # Len(py_orders)
                THEN << <<instrument_id, side_name, cpp_levels[i].price,
                          "queue length", Len(cpp_orders), Len(py_orders)>> >>
                ELSE Pairs[Len(cpp_orders)]
        Level(i) ==
            IF i > Len(py_prices)
            THEN << <<instrument_id, side_name, "extra C++ level",
                      cpp_levels[i].price>> >>
            ELSE IF cpp_levels[i].price # py_prices[i]
            THEN << <<instrument_id, side_name, "level price", i - 1,
                      cpp_levels[i].price, py_prices[i]>> >>
            ELSE Orders(i)
        Stops(i) ==
            /\ i <= Len(py_prices)
            /\ \/ cpp_levels[i].price # py_prices[i]
               \/ Len(cpp_levels[i].orders) # Len(py_book_side[py_prices[i]])
        Levels[i \in 0..Len(cpp_levels)] ==
            IF i = 0 THEN <<>>
            ELSE IF \E k \in 1..(i - 1) : Stops(k) THEN Levels[i - 1]
            ELSE Levels[i - 1] \o Level(i)
        Extra[i \in Len(cpp_levels)..Len(py_prices)] ==
            IF i = Len(cpp_levels) THEN <<>>
            ELSE Extra[i - 1] \o
                 << <<instrument_id, side_name, "extra Py level", py_prices[i]>> >>
    IN  count \o Levels[Len(cpp_levels)]
        \o (IF Len(py_prices) > Len(cpp_levels) THEN Extra[Len(py_prices)] ELSE <<>>)

_compare_side(cpp_levels, py_book_side, side, instrument_id) ==
    LET side_name == IF side = "BUY" THEN "bid" ELSE "ask"
        py_prices == SortedKeys(py_book_side, side)
        count == IF Len(cpp_levels) # Len(py_prices)
                 THEN << <<instrument_id, side_name, "level count",
                           Len(cpp_levels), Len(py_prices)>> >>
                 ELSE <<>>
        Orders(i) ==
            LET cpp_orders == cpp_levels[i].orders
                py_orders  == py_book_side[py_prices[i]]
                Pairs[j \in 0..Len(cpp_orders)] ==
                    IF j = 0 THEN <<>>
                    ELSE Pairs[j - 1] \o
                         _compare_orders(cpp_orders[j], py_orders[j],
                             <<instrument_id, side_name, cpp_levels[i].price, j - 1>>)
            IN  IF Len(cpp_orders) # Len(py_orders)
                THEN << <<instrument_id, side_name, cpp_levels[i].price,
                          "queue length", Len(cpp_orders), Len(py_orders)>> >>
                ELSE Pairs[Len(cpp_orders)]
        Level(i) ==
            IF i > Len(py_prices)
            THEN << <<instrument_id, side_name, "extra C++ level",
                      cpp_levels[i].price>> >>
            ELSE IF cpp_levels[i].price # py_prices[i]
            THEN << <<instrument_id, side_name, "level price", i - 1,
                      cpp_levels[i].price, py_prices[i]>> >>
            ELSE Orders(i)
        Levels[i \in 0..Len(cpp_levels)] ==
            IF i = 0 THEN <<>> ELSE Levels[i - 1] \o Level(i)
        Extra[i \in Len(cpp_levels)..Len(py_prices)] ==
            IF i = Len(cpp_levels) THEN <<>>
            ELSE Extra[i - 1] \o
                 << <<instrument_id, side_name, "extra Py level", py_prices[i]>> >>
    IN  count \o Levels[Len(cpp_levels)]
        \o (IF Len(py_prices) > Len(cpp_levels) THEN Extra[Len(py_prices)] ELSE <<>>)

compare_order_books(cpp_book, py_book, instrument_id) ==
    _compare_side(cpp_book.bids, py_book.bids, "BUY", instrument_id)
    \o _compare_side(cpp_book.asks, py_book.asks, "SELL", instrument_id)

compare_pnl(cpp_pnl, py_pnl) ==
    LET cpp_clients == DOMAIN cpp_pnl
        py_clients  == DOMAIN py_pnl
        only_cpp    == cpp_clients \ py_clients
        only_py     == py_clients \ cpp_clients
        shared      == Ascending(cpp_clients \cap py_clients)
        Field(c, f) ==
            IF Abs(cpp_pnl[c][f] - py_pnl[c][f]) > tolerance
            THEN << <<"PnL", c, f, cpp_pnl[c][f], py_pnl[c][f]>> >>
            ELSE <<>>
        Client[i \in 0..Len(shared)] ==
            IF i = 0 THEN <<>>
            ELSE Client[i - 1] \o Field(shared[i], "long_position")
                 \o Field(shared[i], "short_position") \o Field(shared[i], "cash")
    IN  (IF only_cpp # {} THEN << <<"PnL clients only in C++", only_cpp>> >> ELSE <<>>)
        \o (IF only_py # {} THEN << <<"PnL clients only in Py", only_py>> >> ELSE <<>>)
        \o Client[Len(shared)]

is_match(all_diffs) == Len(all_diffs) = 0

compare_full_state(cpp_state, py_books, py_pnl) ==
    LET cpp_books       == cpp_state.order_books
        cpp_instruments == DOMAIN cpp_books
        py_instruments  == DOMAIN py_books
        only_cpp        == cpp_instruments \ py_instruments
        only_py         == py_instruments \ cpp_instruments
        shared          == Ascending(cpp_instruments \cap py_instruments)
        Book[i \in 0..Len(shared)] ==
            IF i = 0 THEN <<>>
            ELSE Book[i - 1] \o
                 compare_order_books(cpp_books[shared[i]], py_books[shared[i]],
                                     shared[i])
        all_diffs ==
            (IF only_cpp # {} THEN << <<"Order books only in C++", only_cpp>> >>
             ELSE <<>>)
            \o (IF only_py # {} THEN << <<"Order books only in Py", only_py>> >>
                ELSE <<>>)
            \o Book[Len(shared)]
            \o compare_pnl(cpp_state.pnl, py_pnl)
    IN  ComparisonResult(is_match(all_diffs), cpp_state.sequence_num,
                         cpp_state.timestamp, all_diffs)

\* ========================================================= reference engine
\* The engine that writes deltas.csv, trades.csv and states/ is not part of
\* the Python sources; its book follows the forward semantics and its ledger
\* the PnL rules of the specification, kept in the layout of a state file:
\* per side a list of levels, best price first, each with its FIFO orders.
EmptyEngineBook == [bids |-> <<>>, asks |-> <<>>]

BetterPrice(side, p, q) == IF side = "BUY" THEN p > q ELSE p < q

RECURSIVE LevelsInsert(_, _)
LevelsInsert(levels, order) ==
    IF levels = <<>> THEN << [price |-> order.price, orders |-> <<order>>] >>
    ELSE IF Head(levels).price = order.price
    THEN << [Head(levels) EXCEPT !.orders = Append(@, order)] >> \o Tail(levels)
    ELSE IF BetterPrice(order.side, order.price, Head(levels).price)
    THEN << [price |-> order.price, orders |-> <<order>>] >> \o levels
    ELSE <<Head(levels)>> \o LevelsInsert(Tail(levels), order)

RECURSIVE LevelsRemove(_, _)
LevelsRemove(levels, id) ==
    IF levels = <<>> THEN <<>>
    ELSE LET rest == SelectSeq(Head(levels).orders, LAMBDA o : o.order_id # id)
         IN  (IF rest = <<>> THEN <<>>
              ELSE << [Head(levels) EXCEPT !.orders = rest] >>)
             \o LevelsRemove(Tail(levels), id)

LevelsSetQuantity(levels, id, qty) ==
    LET Set(orders) ==
            [j \in 1..Len(orders) |->
                IF orders[j].order_id = id THEN [orders[j] EXCEPT !.quantity = qty]
                ELSE orders[j]]
    IN  [i \in 1..Len(levels) |-> [levels[i] EXCEPT !.orders = Set(levels[i].orders)]]

EngineInsert(eb, order) ==
    IF order.side = "BUY" THEN [eb EXCEPT !.bids = LevelsInsert(@, order)]
    ELSE [eb EXCEPT !.asks = LevelsInsert(@, order)]

EngineRemove(eb, id) ==
    [bids |-> LevelsRemove(eb.bids, id), asks |-> LevelsRemove(eb.asks, id)]

EngineSetQuantity(eb, id, qty) ==
    [bids |-> LevelsSetQuantity(eb.bids, id, qty),
     asks |-> LevelsSetQuantity(eb.asks, id, qty)]

\* forward semantics of one delta
engine_apply(eb, d) ==
    CASE d.delta_type = "ADD" ->
            EngineInsert(eb, Order(d.order_id, d.client_id, d.side, d.price,
                                   d.remaining_qty, d.timestamp))
      [] d.delta_type = "FILL" ->
            IF d.remaining_qty > 0
            THEN EngineSetQuantity(eb, d.order_id, d.remaining_qty)
            ELSE EngineRemove(eb, d.order_id)
      [] d.delta_type = "CANCEL" -> EngineRemove(eb, d.order_id)
      [] d.delta_type = "MODIFY" ->
            EngineInsert(EngineRemove(eb, d.order_id),
                         Order(d.new_order_id, d.client_id, d.side, d.new_price,
                               d.new_quantity, d.timestamp))

\* the ledger: entries made on first involvement, long and short never netted
engine_trade(l, t) ==
    LET Entry(m, c) == IF c \in DOMAIN m THEN m[c] ELSE PnLState
        b  == Entry(l, t.buyer_id)
        l1 == MapPut(l, t.buyer_id,
                     [b EXCEPT !.long_position = @ + t.quantity,
                               !.cash = @ - t.quantity * t.price])
        s  == Entry(l1, t.seller_id)
    IN  MapPut(l1, t.seller_id,
               [s EXCEPT !.short_position = @ + t.quantity,
                         !.cash = @ + t.quantity * t.price])

Range(s) == {s[i] : i \in 1..Len(s)}

\* the engine's books after the first n deltas it emitted, those later than
\* tick T left out
RECURSIVE EngineBooksAt(_, _, _)
EngineBooksAt(rows, n, T) ==
    IF n = 0 THEN [i \in instruments |-> EmptyEngineBook]
    ELSE LET prev == EngineBooksAt(rows, n - 1, T)
             d    == CHOOSE r \in Range(rows) : r.sequence_num = n - 1
         IN  IF d.timestamp <= T
             THEN [prev EXCEPT ![d.instrument_id] = engine_apply(@, d)]
             ELSE prev

\* the engine's ledger after the first n trades it emitted, those later than
\* tick T left out
RECURSIVE EngineLedgerAt(_, _, _)
EngineLedgerAt(rows, n, T) ==
    IF n = 0 THEN EmptyMap
    ELSE LET prev == EngineLedgerAt(rows, n - 1, T)
             t    == CHOOSE r \in Range(rows) : r.trade_id = n
         IN  IF t.timestamp <= T THEN engine_trade(prev, t) ELSE prev

\* the state file of sequence number seq the engine exports at the end of tick T
EngineState(seq, T) ==
    [found |-> TRUE, timestamp |-> T, sequence_num |-> seq,
     order_books |-> EngineBooksAt(deltas_file, Len(deltas_file), T),
     pnl |-> EngineLedgerAt(trades_file, Len(trades_file), T)]

\* a state file that is not the engine's state: a best bid nobody placed
Corrupted(st) ==
    [st EXCEPT !.order_books[1].bids =
        << [price |-> 99, orders |-> << Order(99, 100, "BUY", 99, 1, 0) >>] >> \o @]

\* _load_cpp_state finds no file
None(seq) ==
    [found |-> FALSE, timestamp |-> -1, sequence_num |-> seq,
     order_books |-> EmptyMap, pnl |-> EmptyMap]

\* what _load_cpp_state may return for a file of the states directory
OnDisk(seq) ==
    {None(seq)}
    \cup {EngineState(seq, T) : T \in 0..MaxTs}
    \cup {Corrupted(EngineState(seq, T)) : T \in 0..MaxTs}

\* ----------------------------------------------------- the engine's run
WriteRow(file, row) ==
    IF file_order = "append" THEN Append(file, row) ELSE <<row>> \o file

LastTs == IF deltas_file = <<>> THEN 0
          ELSE Max({deltas_file[i].timestamp : i \in 1..Len(deltas_file)})

EmitTs == {t \in {LastTs, LastTs + 1} : t <= MaxTs}

\* (instrument, order) of every order resting in the engine
EngineResting ==
    LET ebs == EngineBooksAt(deltas_file, Len(deltas_file), MaxTs)
        Of(levels) == UNION {Range(levels[i].orders) : i \in 1..Len(levels)}
    IN  UNION {{<<inst, o>> : o \in Of(ebs[inst].bids) \cup Of(ebs[inst].asks)}
               : inst \in instruments}

\* where the engine's orders rest: instrument 1 quotes both sides, the
\* others a single bid level
AddSlots(inst) ==
    IF inst = 1 THEN {<<"BUY", 10>>, <<"BUY", 11>>, <<"SELL", 12>>}
    ELSE {<<"BUY", 10>>}

ClientOf(side) == IF side = "BUY" THEN 100 ELSE 101

OtherSide(side) == IF side = "BUY" THEN "SELL" ELSE "BUY"

Row(inst, d) == [d EXCEPT !.instrument_id = inst]

CanEmit == pc = "emit" /\ Len(deltas_file) < MaxLen

Emit(rows, trades) ==
    /\ deltas_file' = (IF Len(rows) = 1 THEN WriteRow(deltas_file, rows[1])
                       ELSE WriteRow(WriteRow(deltas_file, rows[1]), rows[2]))
    /\ trades_file' = (IF trades = <<>> THEN trades_file
                       ELSE WriteRow(trades_file, trades[1]))
    /\ UNCHANGED <<instruments, file_order, states_dir, instrument_ids, state_files,
                   cpp_states,
                   all_deltas, all_trades, books, pnl, delta_idx, trade_idx,
                   results, applied_deltas, applied_trades, pc>>
    /\ UNCHANGED <<bvars, hvars>>

EmitAdd ==
    /\ CanEmit
    /\ \E inst \in instruments, ts \in EmitTs :
         \E slot \in AddSlots(inst) :
            Emit(<< Row(inst, Delta(ts, Len(deltas_file), "ADD", NextId(deltas_file),
                                    ClientOf(slot[1]), slot[1], slot[2],
                                    MaxQty, MaxQty, 0, 0, 0)) >>, <<>>)

\* a trade: the resting order is filled, the aggressor is filled completely
\* without ever resting, and the trade is recorded
EmitTrade ==
    /\ CanEmit
    /\ \E r \in EngineResting, ts \in EmitTs :
         LET inst == r[1]
             o    == r[2]
             agg  == OtherSide(o.side)
         IN  \E qty \in {1, o.quantity} :
                Emit(<< Row(inst, Delta(ts, Len(deltas_file), "FILL", o.order_id,
                                        o.client_id, o.side, o.price, qty,
                                        o.quantity - qty, 0, 0, 0)),
                        Row(inst, Delta(ts, Len(deltas_file) + 1, "FILL",
                                        NextId(deltas_file), ClientOf(agg), agg,
                                        o.price, qty, 0, 0, 0, 0)) >>,
                     << [timestamp |-> ts, trade_id |-> Len(trades_file) + 1,
                         buyer_id  |-> ClientOf("BUY"),
                         seller_id |-> ClientOf("SELL"),
                         price |-> o.price, quantity |-> qty] >>)

EmitCancel ==
    /\ CanEmit
    /\ \E r \in EngineResting, ts \in EmitTs :
         Emit(<< Row(r[1], Delta(ts, Len(deltas_file), "CANCEL", r[2].order_id,
                                 r[2].client_id, r[2].side, r[2].price,
                                 r[2].quantity, r[2].quantity, 0, 0, 0)) >>, <<>>)

EmitModify ==
    /\ CanEmit
    /\ \E r \in EngineResting, ts \in EmitTs :
         \E slot \in {s \in AddSlots(r[1]) : s[1] = r[2].side} :
            Emit(<< Row(r[1], Delta(ts, Len(deltas_file), "MODIFY", r[2].order_id,
                                    r[2].client_id, r[2].side, r[2].price,
                                    r[2].quantity, 0, NextId(deltas_file),
                                    slot[2], 1)) >>, <<>>)

\* the engine exports one more state file
ExportState ==
    /\ pc = "emit"
    /\ Cardinality(states_dir) < MaxSnaps
    /\ states_dir' = states_dir \cup {Cardinality(states_dir)}
    /\ UNCHANGED <<instruments, file_order, deltas_file, trades_file, instrument_ids,
                   state_files, cpp_states, all_deltas, all_trades, books, pnl,
                   delta_idx, trade_idx, results, applied_deltas, applied_trades, pc>>
    /\ UNCHANGED <<bvars, hvars>>

\* ============================================================ CrossValidator
\* list.sort is stable: a row goes behind the rows whose key is not greater
RECURSIVE InsertDelta(_, _)
InsertDelta(sorted, d) ==
    IF sorted = <<>> THEN <<d>>
    ELSE IF Head(sorted).timestamp < d.timestamp
            \/ (Head(sorted).timestamp = d.timestamp
                /\ Head(sorted).sequence_num <= d.sequence_num)
    THEN <<Head(sorted)>> \o InsertDelta(Tail(sorted), d)
    ELSE <<d>> \o sorted

\* the deltas left in file order
SortDeltas_none(rows) == rows

RECURSIVE SortDeltas(_)
SortDeltas(rows) ==
    IF rows = <<>> THEN <<>>
    ELSE InsertDelta(SortDeltas(SubSeq(rows, 1, Len(rows) - 1)), rows[Len(rows)])

RECURSIVE InsertTrade(_, _)
InsertTrade(sorted, t) ==
    IF sorted = <<>> THEN <<t>>
    ELSE IF Head(sorted).timestamp <= t.timestamp
    THEN <<Head(sorted)>> \o InsertTrade(Tail(sorted), t)
    ELSE <<t>> \o sorted

RECURSIVE SortTrades(_)
SortTrades(rows) ==
    IF rows = <<>> THEN <<>>
    ELSE InsertTrade(SortTrades(SubSeq(rows, 1, Len(rows) - 1)), rows[Len(rows)])

\* a loop over the deltas that starts again at the first row for every state
\* file
RECURSIVE ConsumeDeltas_rescan(_, _, _, _, _)
ConsumeDeltas_rescan(bks, log, all, idx, cpp_timestamp) ==
    LET RECURSIVE Scan(_, _, _)
        Scan(b, l, i) ==
            IF i < Len(all) /\ all[i + 1].timestamp <= cpp_timestamp
            THEN LET delta   == all[i + 1]
                     inst_id == delta.instrument_id
                 IN  IF inst_id \in DOMAIN b
                     THEN Scan([b EXCEPT ![inst_id] = apply_delta(@, delta)],
                               Append(l, [inst_id |-> inst_id, delta |-> delta]), i + 1)
                     ELSE Scan(b, l, i + 1)
            ELSE [books |-> b, applied |-> l, delta_idx |-> 0]
    IN  Scan(bks, log, 0)

\* the loop over the deltas due at the state's timestamp
RECURSIVE ConsumeDeltas(_, _, _, _, _)
ConsumeDeltas(bks, log, all, idx, cpp_timestamp) ==
    IF idx < Len(all) /\ all[idx + 1].timestamp <= cpp_timestamp
    THEN LET delta   == all[idx + 1]
             inst_id == delta.instrument_id
         IN  IF inst_id \in DOMAIN bks
             THEN ConsumeDeltas([bks EXCEPT ![inst_id] = apply_delta(@, delta)],
                                Append(log, [inst_id |-> inst_id, delta |-> delta]),
                                all, idx + 1, cpp_timestamp)
             ELSE ConsumeDeltas(bks, log, all, idx + 1, cpp_timestamp)
    ELSE [books |-> bks, applied |-> log, delta_idx |-> idx]

\* a loop over the trades that never looks at their timestamps
RECURSIVE ConsumeTrades_all(_, _, _, _, _)
ConsumeTrades_all(p, log, all, idx, cpp_timestamp) ==
    IF idx < Len(all)
    THEN LET trade == all[idx + 1]
         IN  ConsumeTrades_all(on_trade(p, trade.buyer_id, trade.seller_id,
                                        trade.price, trade.quantity),
                               Append(log, trade), all, idx + 1, cpp_timestamp)
    ELSE [pnl |-> p, applied |-> log, trade_idx |-> idx]

\* the loop over the trades due at the state's timestamp
RECURSIVE ConsumeTrades(_, _, _, _, _)
ConsumeTrades(p, log, all, idx, cpp_timestamp) ==
    IF idx < Len(all) /\ all[idx + 1].timestamp <= cpp_timestamp
    THEN LET trade == all[idx + 1]
         IN  ConsumeTrades(on_trade(p, trade.buyer_id, trade.seller_id,
                                    trade.price, trade.quantity),
                           Append(log, trade), all, idx + 1, cpp_timestamp)
    ELSE [pnl |-> p, applied |-> log, trade_idx |-> idx]

\* CrossValidator(output_dir, instrument_ids).validate_all(): the generator
\* is created, nothing of its body has run
NewCrossValidator ==
    /\ pc = "emit"
    /\ instruments # {}
    /\ \E ids \in {{1}, {1, 2}} : instrument_ids' = ids
    /\ pc' = "created"
    /\ UNCHANGED <<instruments, file_order, states_dir, deltas_file, trades_file,
                   state_files, cpp_states, all_deltas, all_trades, books, pnl,
                   delta_idx, trade_idx, results, applied_deltas, applied_trades>>
    /\ UNCHANGED <<bvars, hvars>>

\* a loop that ends at a state file it cannot load
Continue_found(loaded, files) == IF Len(loaded) < Len(files) /\ loaded[Len(loaded)].found THEN "running" ELSE "done"

\* the loop ends with its last state file; the generator then returns
Continue(loaded, files) == IF Len(loaded) < Len(files) THEN "running" ELSE "done"

\* a loop that gives up at the first mismatch
AfterYield_stop(result) == IF result.match THEN "running" ELSE "done"

\* after a result the loop goes on with the next state file
AfterYield(result) == "running"

\* one resumption of the generator: from its start or from the last yield
\* up to the next yield; the return that follows the last yield is taken
\* with it
Resume ==
    /\ pc \in {"created", "running"}
    /\ LET started == pc = "running"
           files   == IF started THEN state_files ELSE Ascending(states_dir)
           bks     == IF started THEN books
                      ELSE [inst_id \in instrument_ids |-> EmptyBook]
       IN  /\ state_files' = files
           /\ all_deltas' = (IF started THEN all_deltas ELSE SortDeltas(deltas_file))
           /\ all_trades' = (IF started THEN all_trades ELSE SortTrades(trades_file))
           /\ IF files = <<>>
              THEN /\ results' = Append(results, ComparisonResult(FALSE, -1, -1,
                                      << <<"No state files found in states directory">> >>))
                   /\ pc' = "done"
                   /\ books' = bks
                   /\ UNCHANGED <<cpp_states, pnl, delta_idx, trade_idx,
                                  applied_deltas, applied_trades>>
              ELSE \E cpp_state \in OnDisk(files[Len(cpp_states) + 1]) :
                   /\ cpp_states' = Append(cpp_states, cpp_state)
                   /\ IF ~cpp_state.found
                      THEN /\ results' = Append(results,
                                  ComparisonResult(FALSE, cpp_state.sequence_num, -1,
                                      << <<"Missing state file", cpp_state.sequence_num>> >>))
                           /\ pc' = Continue(cpp_states', files)
                           /\ books' = bks
                           /\ UNCHANGED <<pnl, delta_idx, trade_idx,
                                          applied_deltas, applied_trades>>
                      ELSE LET cd == ConsumeDeltas(bks, applied_deltas, all_deltas',
                                                   delta_idx, cpp_state.timestamp)
                               ct == ConsumeTrades(pnl, applied_trades, all_trades',
                                                   trade_idx, cpp_state.timestamp)
                               result == compare_full_state(cpp_state, cd.books,
                                                            get_state(ct.pnl))
                           IN  /\ books' = cd.books
                               /\ delta_idx' = cd.delta_idx
                               /\ applied_deltas' = cd.applied
                               /\ pnl' = ct.pnl
                               /\ trade_idx' = ct.trade_idx
                               /\ applied_trades' = ct.applied
                               /\ results' = Append(results, result)
                               /\ pc' = (IF AfterYield(result) = "running"
                                         THEN Continue(cpp_states', files)
                                         ELSE "done")
    /\ UNCHANGED <<instruments, file_order, states_dir, deltas_file, trades_file,
                   instrument_ids>>
    /\ UNCHANGED <<bvars, hvars>>

InitV ==
    /\ book = EmptyBook
    /\ stream = <<>>
    /\ cursor = 0
    /\ states = <<get_book_state(EmptyBook)>>
    /\ phase = "off"
    /\ instruments \in {{1}, {1, 2}}
    /\ file_order \in {"append", "prepend"}
    /\ states_dir = {}
    /\ deltas_file = <<>>
    /\ trades_file = <<>>
    /\ instrument_ids = {}
    /\ state_files = <<>>
    /\ cpp_states = <<>>
    /\ all_deltas = <<>>
    /\ all_trades = <<>>
    /\ books = EmptyMap
    /\ pnl = EmptyMap
    /\ delta_idx = 0
    /\ trade_idx = 0
    /\ results = <<>>
    /\ applied_deltas = <<>>
    /\ applied_trades = <<>>
    /\ pc = "emit"
    /\ HarnessOff

NextV ==
    \/ EmitAdd
    \/ EmitTrade
    \/ EmitCancel
    \/ EmitModify
    \/ ExportState
    \/ NewCrossValidator
    \/ Resume

SpecV == InitV /\ [][NextV]_vars

\* a report that passes when the last comparison matched
run_and_report_last(yielded) == yielded = <<>> \/ yielded[Len(yielded)].match

\* CrossValidator.run_and_report over the results that validate_all yields:
\* all_passed starts True and is cleared by every result that does not match
run_and_report(yielded) ==
    LET RECURSIVE Loop(_)
        Loop(total) ==
            IF total = 0 THEN TRUE
            ELSE LET all_passed == Loop(total - 1)
                     result == yielded[total]
                 IN  IF ~result.match THEN FALSE ELSE all_passed
    IN  Loop(Len(yielded))

\* the exit code of the validator command once validate_all has returned
main == IF run_and_report(results) THEN 0 ELSE 1

\* ================================================ StateComparator on its own
\* The comparator applied to the snapshots and books the tests hand to it:
\* books filled by _add_order, snapshots in the layout of a state file.
\* the books of one or two Orders
PyBooks ==
    LET first == {Order(i, cq[1], sd, p, cq[2], 0) :
                    i \in {1, 2}, cq \in {<<100, 1>>, <<101, 1>>, <<100, MaxQty>>},
                    sd \in Sides, p \in Prices}
        second(o) == {Order(3 - o.order_id, 100, sd, p, 1, 0) :
                        sd \in Sides, p \in Prices}
    IN  {EmptyBook}
        \cup {_add_order(EmptyBook, o) : o \in first}
        \cup UNION {{_add_order(_add_order(EmptyBook, o), o2) : o2 \in second(o)} :
                    o \in first}

\* a book as a state file lists it: per side the levels, best price first,
\* each with its orders in queue order
BookJson(b) ==
    LET LevelsOf(py_book_side, side) ==
            LET keys == SortedKeys(py_book_side, side)
            IN  [i \in 1..Len(keys) |->
                    [price |-> keys[i], orders |-> py_book_side[keys[i]]]]
    IN  [bids |-> LevelsOf(b.bids, "BUY"), asks |-> LevelsOf(b.asks, "SELL")]

\* state files that list a book as it is, list its levels worst price
\* first, or give the first order of the best bid another price, side or
\* timestamp
CppBooksOf(b) ==
    LET j == BookJson(b)
        Reverse(q) == [i \in 1..Len(q) |-> q[Len(q) + 1 - i]]
    IN  {j, [j EXCEPT !.bids = Reverse(@)], [j EXCEPT !.asks = Reverse(@)]}
        \cup (IF j.bids = <<>> THEN {}
              ELSE {[j EXCEPT !.bids[1].orders[1].price = 21 - @],
                    [j EXCEPT !.bids[1].orders[1].side = "SELL"],
                    [j EXCEPT !.bids[1].orders[1].timestamp = 1]})

\* a book of three bid levels, the middle one a queue of two, and the state
\* files that list it as it is, with another price or a shorter queue at one
\* level, and with other fields in the orders of the levels around it
DeepBook ==
    _add_order(_add_order(_add_order(_add_order(EmptyBook,
        Order(1, 100, "BUY", 12, 1, 0)), Order(2, 100, "BUY", 11, 1, 0)),
        Order(3, 101, "BUY", 11, 2, 0)), Order(4, 100, "BUY", 10, 1, 0))

DeepCppBooks ==
    LET j == BookJson(DeepBook)
        level == {[j EXCEPT !.bids[i].price = 13] : i \in 1..3}
                 \cup {[j EXCEPT !.bids[2].orders = <<@[1]>>]}
        order == {[c EXCEPT !.bids[3].orders[1].quantity = 2,
                            !.bids[3].orders[1].client_id = 101] : c \in level}
                 \cup {[c EXCEPT !.bids[1].orders[1].order_id = 4,
                                 !.bids[1].orders[1].side = "SELL",
                                 !.bids[1].orders[1].price = 10] : c \in level \cup {j}}
    IN  {j} \cup level \cup order

\* the arguments of a comparison: one book on each side and no ledger, the
\* book of three levels against its state files, or any instrument ids and
\* ledgers with the same book for every instrument
CmpInputs ==
    LET State(cpp_books, cpp_pnl) ==
            [sequence_num |-> 1, timestamp |-> 1,
             order_books |-> cpp_books, pnl |-> cpp_pnl]
        ledgers ==
            {EmptyMap}
            \cup {MapPut(EmptyMap, 100, st) :
                    st \in {PnLState, [PnLState EXCEPT !.long_position = 1],
                            [PnLState EXCEPT !.short_position = 1],
                            [PnLState EXCEPT !.cash = 10]}}
            \cup {MapPut(MapPut(EmptyMap, 100, PnLState), 101, PnLState)}
        ids  == {{1}, {2}, {1, 2}}
        some == {EmptyBook, _add_order(EmptyBook, Order(1, 100, "BUY", 10, 1, 0))}
    IN  {[cpp_state |-> State(MapPut(EmptyMap, 1, cb), EmptyMap),
          py_books  |-> MapPut(EmptyMap, 1, pb),
          py_pnl    |-> EmptyMap] :
            cb \in UNION {CppBooksOf(b) : b \in PyBooks}, pb \in PyBooks}
        \cup
        {[cpp_state |-> State(MapPut(EmptyMap, 1, cb), EmptyMap),
          py_books  |-> MapPut(EmptyMap, 1, DeepBook),
          py_pnl    |-> EmptyMap] : cb \in DeepCppBooks}
        \cup
        {[cpp_state |-> State([i \in in[1] |-> BookJson(in[3])], in[5]),
          py_books  |-> [i \in in[2] |-> in[4]],
          py_pnl    |-> in[6]] :
            in \in ids \X ids \X some \X some \X ledgers \X ledgers}

\* a comparison that takes the orders out of the queues it walks
CompareFullState_consumes ==
    /\ cmp_results = <<>>
    /\ cmp_results' = Append(cmp_results,
            [call |-> "compare_full_state",
             value |-> compare_full_state(cmp_cpp_state, cmp_py_books, cmp_py_pnl)])
    /\ cmp_py_books' = [i \in DOMAIN cmp_py_books |->
            [cmp_py_books[i] EXCEPT !.bids = [p \in DOMAIN @ |-> <<>>],
                                    !.asks = [p \in DOMAIN @ |-> <<>>]]]
    /\ UNCHANGED <<cmp_cpp_state, cmp_py_pnl>>
    /\ UNCHANGED <<bvars, vvars, ivars, avars, nvars, tvars>>

\* comparator.compare_full_state(cpp_state, py_books, py_pnl)
CompareFullState ==
    /\ cmp_results = <<>>
    /\ cmp_results' = Append(cmp_results,
            [call |-> "compare_full_state",
             value |-> compare_full_state(cmp_cpp_state, cmp_py_books, cmp_py_pnl)])
    /\ UNCHANGED <<cmp_cpp_state, cmp_py_books, cmp_py_pnl>>
    /\ UNCHANGED <<bvars, vvars, ivars, avars, nvars, tvars>>

\* comparator.compare_order_books(cpp_book, py_book, instrument_id) on the
\* books of an instrument both sides hold
CompareOrderBooks ==
    /\ cmp_results = <<>>
    /\ \E instrument_id \in DOMAIN cmp_cpp_state.order_books \cap DOMAIN cmp_py_books :
        cmp_results' = Append(cmp_results,
            [call |-> "compare_order_books",
             value |-> compare_order_books(cmp_cpp_state.order_books[instrument_id],
                                           cmp_py_books[instrument_id], instrument_id)])
    /\ UNCHANGED <<cmp_cpp_state, cmp_py_books, cmp_py_pnl>>
    /\ UNCHANGED <<bvars, vvars, ivars, avars, nvars, tvars>>

\* comparator.compare_pnl(cpp_pnl, py_pnl)
ComparePnl ==
    /\ cmp_results = <<>>
    /\ cmp_results' = Append(cmp_results,
            [call |-> "compare_pnl",
             value |-> compare_pnl(cmp_cpp_state.pnl, cmp_py_pnl)])
    /\ UNCHANGED <<cmp_cpp_state, cmp_py_books, cmp_py_pnl>>
    /\ UNCHANGED <<bvars, vvars, ivars, avars, nvars, tvars>>

InitC ==
    /\ BookOff
    /\ ValidatorOff
    /\ NavigatorOff
    /\ TestHarnessOff
    /\ IndexOff
    /\ AnalyzerOff
    /\ \E in \in CmpInputs :
        /\ cmp_cpp_state = in.cpp_state
        /\ cmp_py_books = in.py_books
        /\ cmp_py_pnl = in.py_pnl
    /\ cmp_results = <<>>

NextC ==
    \/ CompareFullState
    \/ CompareOrderBooks
    \/ ComparePnl

SpecC == InitC /\ [][NextC]_vars

\* ================================================================ DeltaIndex
\* A deltas file is its header line and its data rows.  The position
\* f.tell() gives at the start of a line is counted in lines: the header
\* ends at 1 and data row i starts at offset i; f.readline() at an offset
\* past the last row returns the empty string.
_build_index(file) ==
    LET RECURSIVE Loop(_, _, _)
        Loop(offset, current_ts, ix) ==
            IF offset > Len(file) THEN ix
            ELSE LET ts == file[offset].timestamp
                 IN  IF <<ts>> # current_ts
                     THEN Loop(offset + 1, <<ts>>,
                               [ix EXCEPT !.timestamps = Append(@, ts),
                                          !._offsets = Append(@, offset)])
                     ELSE Loop(offset + 1, current_ts, ix)
    IN  Loop(1, <<>>, [timestamps |-> <<>>, _offsets |-> <<>>, _header_end |-> 1])

\* a read that goes on to the end of the file
read_deltas_at_index_rest(file, ix, idx) ==
    IF idx < 0 \/ idx >= Len(ix.timestamps) THEN <<>>
    ELSE SubSeq(file, ix._offsets[idx + 1], Len(file))

\* idx counts from 0
read_deltas_at_index(file, ix, idx) ==
    IF idx < 0 \/ idx >= Len(ix.timestamps) THEN <<>>
    ELSE LET target_ts == ix.timestamps[idx + 1]
             start_offset == ix._offsets[idx + 1]
             RECURSIVE Loop(_)
             Loop(offset) ==
                IF offset > Len(file) THEN <<>>
                ELSE IF file[offset].timestamp # target_ts THEN <<>>
                ELSE <<file[offset]>> \o Loop(offset + 1)
         IN  Loop(start_offset)

\* a read that stops where the tick of the index begins
read_deltas_up_to_index_before(file, ix, idx) ==
    IF idx < 0 \/ idx >= Len(ix.timestamps) THEN <<>>
    ELSE LET end_ts == ix.timestamps[idx + 1]
             RECURSIVE Loop(_)
             Loop(offset) ==
                IF offset > Len(file) THEN <<>>
                ELSE IF file[offset].timestamp >= end_ts THEN <<>>
                ELSE <<file[offset]>> \o Loop(offset + 1)
         IN  Loop(ix._header_end)

\* the rows the generator yields, in the order it yields them
read_deltas_up_to_index(file, ix, idx) ==
    IF idx < 0 \/ idx >= Len(ix.timestamps) THEN <<>>
    ELSE LET end_ts == ix.timestamps[idx + 1]
             RECURSIVE Loop(_)
             Loop(offset) ==
                IF offset > Len(file) THEN <<>>
                ELSE IF file[offset].timestamp > end_ts THEN <<>>
                ELSE <<file[offset]>> \o Loop(offset + 1)
         IN  Loop(ix._header_end)

\* a search that keeps the last of the closest timestamps
find_timestamp_index_last(ix, target_ts) ==
    LET ts == ix.timestamps
        Index(x) == CHOOSE i \in 1..Len(ts) :
                        ts[i] = x /\ \A j \in 1..(i - 1) : ts[j] # x
        RECURSIVE Min(_, _)
        Min(i, best) ==
            IF i > Len(ts) THEN best
            ELSE Min(i + 1, IF Abs(ts[i] - target_ts) <= Abs(best - target_ts)
                            THEN ts[i] ELSE best)
    IN  IF \E i \in 1..Len(ts) : ts[i] = target_ts
        THEN [raised |-> FALSE, value |-> Index(target_ts) - 1]
        ELSE IF ts = <<>> THEN [raised |-> TRUE, value |-> -1]
        ELSE [raised |-> FALSE, value |-> Index(Min(2, ts[1])) - 1]

\* list.index gives the first position of a value, min the first of the
\* elements with the least key; min of an empty list raises ValueError
find_timestamp_index(ix, target_ts) ==
    LET ts == ix.timestamps
        Index(x) == CHOOSE i \in 1..Len(ts) :
                        ts[i] = x /\ \A j \in 1..(i - 1) : ts[j] # x
        RECURSIVE Min(_, _)
        Min(i, best) ==
            IF i > Len(ts) THEN best
            ELSE Min(i + 1, IF Abs(ts[i] - target_ts) < Abs(best - target_ts)
                            THEN ts[i] ELSE best)
    IN  IF \E i \in 1..Len(ts) : ts[i] = target_ts
        THEN [raised |-> FALSE, value |-> Index(target_ts) - 1]
        ELSE IF ts = <<>> THEN [raised |-> TRUE, value |-> -1]
        ELSE [raised |-> FALSE, value |-> Index(Min(2, ts[1])) - 1]

\* the files: up to MaxRows rows, sorted by timestamp or not
DeltaFiles ==
    {[i \in 1..Len(ts) |-> [timestamp |-> ts[i], sequence_num |-> i - 1]] :
        ts \in UNION {[1..n -> 0..MaxTick] : n \in 0..MaxRows}}

ReadDeltasAtIndex ==
    /\ \E idx \in -1..MaxRows :
        idx_out' = <<[call |-> "read_deltas_at_index", arg |-> idx,
                      value |-> read_deltas_at_index(idx_file, delta_index, idx)]>>
    /\ UNCHANGED <<idx_file, delta_index>>
    /\ UNCHANGED <<bvars, vvars, cvars, avars, nvars, tvars>>

\* list(index.read_deltas_up_to_index(idx))
ReadDeltasUpToIndex ==
    /\ \E idx \in -1..MaxRows :
        idx_out' = <<[call |-> "read_deltas_up_to_index", arg |-> idx,
                      value |-> read_deltas_up_to_index(idx_file, delta_index, idx)]>>
    /\ UNCHANGED <<idx_file, delta_index>>
    /\ UNCHANGED <<bvars, vvars, cvars, avars, nvars, tvars>>

FindTimestampIndex ==
    /\ \E target_ts \in 0..(MaxTick + 1) :
        idx_out' = <<[call |-> "find_timestamp_index", arg |-> target_ts,
                      value |-> find_timestamp_index(delta_index, target_ts)]>>
    /\ UNCHANGED <<idx_file, delta_index>>
    /\ UNCHANGED <<bvars, vvars, cvars, avars, nvars, tvars>>

\* index = DeltaIndex(path)
InitI ==
    /\ BookOff
    /\ ValidatorOff
    /\ NavigatorOff
    /\ TestHarnessOff
    /\ ComparatorOff
    /\ AnalyzerOff
    /\ idx_file \in DeltaFiles
    /\ delta_index = _build_index(idx_file)
    /\ idx_out = <<>>

NextI ==
    \/ ReadDeltasAtIndex
    \/ ReadDeltasUpToIndex
    \/ FindTimestampIndex

SpecI == InitI /\ [][NextI]_vars

\* ================================================ adverse-selection analyzer
MM_CLIENT_ID == 10

\* order_id -> timestamp of the last ADD or MODIFY row that names it
build_order_lifecycle(rows) ==
    LET RECURSIVE Scan(_)
        Scan(n) ==
            IF n = 0 THEN EmptyMap
            ELSE LET lifecycle == Scan(n - 1)
                     row == rows[n]
                 IN  IF row.delta_type = "ADD"
                     THEN MapPut(lifecycle, row.order_id, row.timestamp)
                     ELSE IF row.delta_type = "MODIFY"
                     THEN LET l1 == MapPut(lifecycle, row.order_id, row.timestamp)
                          IN  IF row.new_order_id # 0
                              THEN MapPut(l1, row.new_order_id, row.timestamp)
                              ELSE l1
                     ELSE lifecycle
    IN  Scan(Len(rows))

\* a lookup that takes the last point at or before target_ts
lookup_fair_price_at_stale(ts_list, fp_list, target_ts) ==
    LET at == {i \in 1..Len(ts_list) : ts_list[i] <= target_ts}
    IN  IF at = {} THEN <<>> ELSE <<fp_list[Max(at)]>>

\* bisect.bisect_left on ts_list; no value is <<>>, a value v is <<v>>
lookup_fair_price_at(ts_list, fp_list, target_ts) ==
    LET RECURSIVE Bisect(_, _)
        Bisect(lo, hi) ==
            IF lo >= hi THEN lo
            ELSE LET mid == (lo + hi) \div 2
                 IN  IF ts_list[mid + 1] < target_ts THEN Bisect(mid + 1, hi)
                     ELSE Bisect(lo, mid)
        idx == Bisect(0, Len(ts_list))
    IN  IF idx < Len(ts_list) THEN <<fp_list[idx + 1]>> ELSE <<>>

\* an MMFill whose immediate_as does not depend on mm_side
MMFill_unsigned(row, mm_order_id, mm_side, counterparty_id, birth_ts, ts_list, fp_list, agent_map, horizons) ==
    LET fill_timestamp == row.timestamp
        fill_price == row.price
        fair_price == row.fair_price
        future_fp(h) == lookup_fair_price_at(ts_list, fp_list, fill_timestamp + h)
    IN  [fill_timestamp |-> fill_timestamp,
         trade_id |-> row.trade_id,
         mm_order_id |-> mm_order_id,
         mm_side |-> mm_side,
         quote_age |-> fill_timestamp - birth_ts,
         fill_price |-> fill_price,
         fair_price |-> fair_price,
         immediate_as |-> fair_price - fill_price,
         realized_as |-> [h \in horizons |->
                            IF future_fp(h) # <<>>
                            THEN IF mm_side = "BUY"
                                 THEN <<future_fp(h)[1] - fill_price>>
                                 ELSE <<fill_price - future_fp(h)[1]>>
                            ELSE <<>>],
         counterparty_id |-> counterparty_id,
         counterparty_type |-> IF counterparty_id \in DOMAIN agent_map
                               THEN agent_map[counterparty_id] ELSE "Unknown"]

\* the MMFill of a trade in which the market maker's order mm_order_id, of
\* side mm_side, was resting
MMFill(row, mm_order_id, mm_side, counterparty_id, birth_ts, ts_list, fp_list, agent_map, horizons) ==
    LET fill_timestamp == row.timestamp
        fill_price == row.price
        fair_price == row.fair_price
        future_fp(h) == lookup_fair_price_at(ts_list, fp_list, fill_timestamp + h)
    IN  [fill_timestamp |-> fill_timestamp,
         trade_id |-> row.trade_id,
         mm_order_id |-> mm_order_id,
         mm_side |-> mm_side,
         quote_age |-> fill_timestamp - birth_ts,
         fill_price |-> fill_price,
         fair_price |-> fair_price,
         immediate_as |-> IF mm_side = "BUY" THEN fair_price - fill_price
                          ELSE fill_price - fair_price,
         realized_as |-> [h \in horizons |->
                            IF future_fp(h) # <<>>
                            THEN IF mm_side = "BUY"
                                 THEN <<future_fp(h)[1] - fill_price>>
                                 ELSE <<fill_price - future_fp(h)[1]>>
                            ELSE <<>>],
         counterparty_id |-> counterparty_id,
         counterparty_type |-> IF counterparty_id \in DOMAIN agent_map
                               THEN agent_map[counterparty_id] ELSE "Unknown"]

\* a fill extraction that takes every trade of the market maker
compute_mm_fills_any(trades, mm_client_id, order_lifecycle, ts_list, fp_list, agent_map, horizons) ==
    LET RECURSIVE Rows(_)
        Rows(n) ==
            IF n = 0 THEN <<>>
            ELSE LET row == trades[n]
                     Fill(mm_order_id, mm_side, counterparty_id) ==
                        IF mm_order_id \notin DOMAIN order_lifecycle THEN <<>>
                        ELSE << MMFill(row, mm_order_id, mm_side, counterparty_id,
                                       order_lifecycle[mm_order_id],
                                       ts_list, fp_list, agent_map, horizons) >>
                 IN  Rows(n - 1) \o
                     (IF row.seller_id = mm_client_id
                      THEN Fill(row.seller_order_id, "SELL", row.buyer_id)
                      ELSE IF row.buyer_id = mm_client_id
                      THEN Fill(row.buyer_order_id, "BUY", row.seller_id)
                      ELSE <<>>)
    IN  Rows(Len(trades))

compute_mm_fills(trades, mm_client_id, order_lifecycle, ts_list, fp_list, agent_map, horizons) ==
    LET RECURSIVE Rows(_)
        Rows(n) ==
            IF n = 0 THEN <<>>
            ELSE LET row == trades[n]
                     Fill(mm_order_id, mm_side, counterparty_id) ==
                        IF mm_order_id \notin DOMAIN order_lifecycle THEN <<>>
                        ELSE << MMFill(row, mm_order_id, mm_side, counterparty_id,
                                       order_lifecycle[mm_order_id],
                                       ts_list, fp_list, agent_map, horizons) >>
                 IN  Rows(n - 1) \o
                     (IF row.aggressor_side = "BUY" /\ row.seller_id = mm_client_id
                      THEN Fill(row.seller_order_id, "SELL", row.buyer_id)
                      ELSE IF row.aggressor_side = "SELL" /\ row.buyer_id = mm_client_id
                      THEN Fill(row.buyer_order_id, "BUY", row.seller_id)
                      ELSE <<>>)
    IN  Rows(Len(trades))

\* delta files of up to MaxDeltas ADD and MODIFY rows of the orders 1 and 2,
\* in non-decreasing order of timestamp
AnalyzerDeltas ==
    LET kinds == {<<"ADD", 1, 0>>, <<"ADD", 2, 0>>,
                  <<"MODIFY", 1, 2>>, <<"MODIFY", 2, 0>>}
        DeltaRow(n, ts, k) ==
            Delta(ts, n - 1, k[1], k[2], MM_CLIENT_ID, "BUY", 10, 1, 0, k[3],
                  IF k[3] = 0 THEN 0 ELSE 11, IF k[1] = "MODIFY" THEN 1 ELSE 0)
    IN  {[n \in 1..Len(r) |-> DeltaRow(n, r[n][1], r[n][2])] :
            r \in {q \in UNION {[1..n -> (0..MaxTick) \X kinds] : n \in 0..MaxDeltas} :
                    \A i \in 1..(Len(q) - 1) : q[i][1] <= q[i + 1][1]}}

\* trade files of no trade or of one trade between the market maker and
\* client 20, on either side and as either aggressor, at a price below or
\* above the fair price 11 recorded on the trade; order 3 is in no delta file
AnalyzerTrades ==
    {<<>>} \cup
    {<< [timestamp |-> f[1], trade_id |-> 1, instrument_id |-> 1,
         buyer_id |-> f[3][1], seller_id |-> f[3][2],
         buyer_order_id |-> f[4][1], seller_order_id |-> f[4][2],
         price |-> f[4][3], quantity |-> 1, aggressor_side |-> f[2],
         fair_price |-> 11] >> :
        f \in {1, 2} \X Sides
               \X ({MM_CLIENT_ID, 20} \X {MM_CLIENT_ID, 20})
               \X {<<1, 2, 10>>, <<2, 1, 13>>, <<3, 3, 10>>}}

\* fair-price series of market_state.csv, sorted by timestamp: no point at
\* the ticks 1 and 2, none after tick 4
FairTs == <<0, 3, 4>>

FairPrices == <<10, 12, 14>>

Horizons == {1, 3}

\* build_order_lifecycle(deltas.csv), then compute_mm_fills(trades.csv, ...)
Analyze ==
    /\ as_out = <<>>
    /\ LET order_lifecycle == build_order_lifecycle(as_deltas)
       IN  as_out' = << [order_lifecycle |-> order_lifecycle,
                         fills |-> compute_mm_fills(as_trades, MM_CLIENT_ID,
                                      order_lifecycle, FairTs, FairPrices,
                                      MapPut(MapPut(EmptyMap, MM_CLIENT_ID, "MarketMaker"),
                                             20, "NoiseTrader"),
                                      Horizons)] >>
    /\ UNCHANGED <<as_deltas, as_trades, sum_fills, buckets, summary>>
    /\ UNCHANGED <<bvars, vvars, cvars, ivars, nvars, tvars>>

InitA ==
    /\ BookOff
    /\ ValidatorOff
    /\ NavigatorOff
    /\ TestHarnessOff
    /\ ComparatorOff
    /\ IndexOff
    /\ as_deltas \in AnalyzerDeltas
    /\ as_trades \in AnalyzerTrades
    /\ as_out = <<>>
    /\ sum_fills = <<>>
    /\ buckets = 0
    /\ summary = <<>>

NextA ==
    \/ Analyze

SpecA == InitA /\ [][NextA]_vars

\* ------------------------------------------- quote-age buckets and summary
\* sorted() of a list of integers
RECURSIVE sorted(_)
sorted(values) ==
    IF values = <<>> THEN <<>>
    ELSE LET rest == sorted(Tail(values))
             x == Head(values)
             k == Cardinality({i \in 1..Len(rest) : rest[i] <= x})
         IN  SubSeq(rest, 1, k) \o <<x>> \o SubSeq(rest, k + 1, Len(rest))

\* boundaries[i] for i in range(1, num_buckets): ages[min(idx, len - 1)]
\* with idx = int((i / num_buckets) * len(ages)); at the bucket and fill
\* counts of this model the float product truncates to
\* (i * len(ages)) // num_buckets
compute_bucket_boundaries(fills, num_buckets) ==
    LET ages == sorted([k \in 1..Len(fills) |-> fills[k].quote_age])
        Boundary(i) ==
            LET pct_len == (i * Len(ages)) \div num_buckets
                at == IF pct_len < Len(ages) - 1 THEN pct_len ELSE Len(ages) - 1
            IN  ages[at + 1]
    IN  IF ages = <<>> THEN <<>>
        ELSE [i \in 1..(num_buckets - 1) |-> Boundary(i)]

\* a bucket index taken with bisect.bisect_left
assign_bucket_left(quote_age, boundaries) ==
    LET RECURSIVE Bisect(_, _)
        Bisect(lo, hi) ==
            IF lo >= hi THEN lo
            ELSE LET mid == (lo + hi) \div 2
                 IN  IF boundaries[mid + 1] < quote_age THEN Bisect(mid + 1, hi)
                     ELSE Bisect(lo, mid)
    IN  Bisect(0, Len(boundaries))

\* bisect.bisect_right(boundaries, quote_age)
assign_bucket(quote_age, boundaries) ==
    LET RECURSIVE Bisect(_, _)
        Bisect(lo, hi) ==
            IF lo >= hi THEN lo
            ELSE LET mid == (lo + hi) \div 2
                 IN  IF quote_age < boundaries[mid + 1] THEN Bisect(lo, mid)
                     ELSE Bisect(mid + 1, hi)
    IN  Bisect(0, Len(boundaries))

bucket_label(b_idx, boundaries) ==
    IF boundaries = <<>> THEN "[0, inf)"
    ELSE IF b_idx = 0
    THEN "[0, " \o ToString(boundaries[1]) \o ")"
    ELSE IF b_idx < Len(boundaries)
    THEN "[" \o ToString(boundaries[b_idx]) \o ", "
             \o ToString(boundaries[b_idx + 1]) \o ")"
    ELSE "[" \o ToString(boundaries[Len(boundaries)]) \o ", inf)"

\* (boundaries, stats_list); a float is the pair <<numerator, denominator>>
\* of the quotient it rounds, None is <<>>
compute_summary(fills, horizons, num_buckets) ==
    LET boundaries == compute_bucket_boundaries(fills, num_buckets)
        RECURSIVE Total(_)
        Total(values) ==
            IF values = <<>> THEN 0 ELSE Head(values) + Total(Tail(values))
        mean(values) == <<Total(values), Len(values)>>
        median(values) ==
            LET data == sorted(values)
                n == Len(data)
            IN  IF n % 2 = 1 THEN <<data[n \div 2 + 1], 1>>
                ELSE <<data[n \div 2] + data[n \div 2 + 1], 2>>
        Stats(b_idx) ==
            LET b_fills == SelectSeq(fills, LAMBDA f :
                               assign_bucket(f.quote_age, boundaries) = b_idx)
                label == bucket_label(b_idx, boundaries)
                imm_as_values == [k \in 1..Len(b_fills) |-> b_fills[k].immediate_as]
                h_values(h) ==
                    LET given == SelectSeq(b_fills, LAMBDA f : f.realized_as[h] # <<>>)
                    IN  [k \in 1..Len(given) |-> given[k].realized_as[h][1]]
                informed_count ==
                    Len(SelectSeq(b_fills,
                                  LAMBDA f : f.counterparty_type = "InformedTrader"))
            IN  IF b_fills = <<>>
                THEN [label |-> label,
                      count |-> 0,
                      mean_immediate_as |-> <<0, 1>>,
                      median_immediate_as |-> <<0, 1>>,
                      mean_realized_as |-> [h \in horizons |-> <<>>],
                      informed_pct |-> <<0, 1>>]
                ELSE [label |-> label,
                      count |-> Len(b_fills),
                      mean_immediate_as |-> mean(imm_as_values),
                      median_immediate_as |-> median(imm_as_values),
                      mean_realized_as |->
                          [h \in horizons |->
                              IF h_values(h) # <<>> THEN mean(h_values(h)) ELSE <<>>],
                      informed_pct |-> <<informed_count * 100, Len(b_fills)>>]
    IN  [boundaries |-> boundaries,
         stats_list |-> [k \in 1..num_buckets |-> Stats(k - 1)]]

\* the fields of an MMFill that compute_summary reads; a quote age below
\* zero is one that build_order_lifecycle's later rows produce
SummaryFillKinds ==
    {[quote_age |-> a,
      immediate_as |-> IF t = "InformedTrader" THEN 0 - 1 ELSE 1,
      realized_as |-> [h \in Horizons |->
                          IF t = "InformedTrader" /\ h = 1 THEN <<0 - 2>> ELSE <<>>],
      counterparty_type |-> t] :
        a \in (0 - 1)..MaxAge, t \in {"InformedTrader", "NoiseTrader"}}

\* compute_summary(fills, horizons, num_buckets)
ComputeSummary ==
    /\ summary = <<>>
    /\ summary' = << compute_summary(sum_fills, Horizons, buckets) >>
    /\ UNCHANGED <<as_deltas, as_trades, as_out, sum_fills, buckets>>
    /\ UNCHANGED <<bvars, vvars, cvars, ivars, nvars, tvars>>

InitS ==
    /\ BookOff
    /\ ValidatorOff
    /\ NavigatorOff
    /\ TestHarnessOff
    /\ ComparatorOff
    /\ IndexOff
    /\ as_deltas = <<>>
    /\ as_trades = <<>>
    /\ as_out = <<>>
    /\ sum_fills \in UNION {[1..n -> SummaryFillKinds] : n \in 0..MaxFills}
    /\ buckets \in 0..MaxBuckets
    /\ summary = <<>>

NextS ==
    \/ ComputeSummary

SpecS == InitS /\ [][NextS]_vars


\* ========================================================= interactive_mode
\* A session on the deltas file the engine has written so far: the stream.
\* The index and the file are delta_index and idx_file; book is the
\* session's book.

\* a fresh book with the deltas up to the tick of target_idx applied
rebuild_to_index(file, ix, target_idx) ==
    LET rows == read_deltas_up_to_index(file, ix, target_idx)
        RECURSIVE Apply(_)
        Apply(n) == IF n = 0 THEN EmptyBook ELSE apply_delta(Apply(n - 1), rows[n])
    IN  Apply(Len(rows))

\* the session starts: it builds the index and returns at once for an empty
\* file, or shows index 0 and waits for a command
InteractiveMode ==
    /\ phase = "gen"
    /\ LET index == _build_index(stream)
       IN  /\ idx_file' = stream
           /\ delta_index' = index
           /\ IF Len(index.timestamps) = 0
              THEN /\ phase' = "done"
                   /\ UNCHANGED <<book, nvars>>
              ELSE /\ phase' = "cmd"
                   /\ nav_idx' = 0
                   /\ book' = rebuild_to_index(stream, index, 0)
                   /\ current_deltas' = read_deltas_at_index(stream, index, 0)
                   /\ cmd' = ""
    /\ UNCHANGED <<stream, cursor, states, idx_out>>
    /\ UNCHANGED <<vvars, cvars, avars, tvars>>

\* n: the deltas of the next tick are read and applied
CmdN ==
    /\ phase = "cmd"
    /\ cmd' = "n"
    /\ IF nav_idx < Len(delta_index.timestamps) - 1
       THEN LET rows == read_deltas_at_index(idx_file, delta_index, nav_idx + 1)
                RECURSIVE Apply(_)
                Apply(n) == IF n = 0 THEN book ELSE apply_delta(Apply(n - 1), rows[n])
            IN  /\ nav_idx' = nav_idx + 1
                /\ current_deltas' = rows
                /\ book' = Apply(Len(rows))
       ELSE UNCHANGED <<nav_idx, current_deltas, book>>
    /\ UNCHANGED <<stream, cursor, states, phase, ivars>>
    /\ UNCHANGED <<vvars, cvars, avars, tvars>>

\* p: the deltas of the current tick are undone, last first, each with the
\* timestamp of the tick before
CmdP ==
    /\ phase = "cmd"
    /\ BookSize(book) <= MaxLen
    /\ cmd' = "p"
    /\ IF nav_idx > 0
       THEN LET prev_ts == delta_index.timestamps[nav_idx]
                RECURSIVE Undo(_)
                Undo(n) ==
                    IF n = 0 THEN book
                    ELSE apply_reverse_delta(Undo(n - 1),
                             current_deltas[Len(current_deltas) - n + 1], prev_ts)
            IN  /\ book' = Undo(Len(current_deltas))
                /\ nav_idx' = nav_idx - 1
                /\ current_deltas' =
                        read_deltas_at_index(idx_file, delta_index, nav_idx - 1)
       ELSE UNCHANGED <<nav_idx, current_deltas, book>>
    /\ UNCHANGED <<stream, cursor, states, phase, ivars>>
    /\ UNCHANGED <<vvars, cvars, avars, tvars>>

\* <timestamp>: the book is rebuilt up to the closest tick of the index
CmdJump ==
    /\ phase = "cmd"
    /\ cmd' = "jump"
    /\ \E target \in 0..(MaxTs + 1) :
        LET new_idx == find_timestamp_index(delta_index, target).value
        IN  /\ book' = rebuild_to_index(idx_file, delta_index, new_idx)
            /\ current_deltas' = read_deltas_at_index(idx_file, delta_index, new_idx)
            /\ nav_idx' = new_idx
    /\ UNCHANGED <<stream, cursor, states, phase, ivars>>
    /\ UNCHANGED <<vvars, cvars, avars, tvars>>

NextN ==
    \/ Add
    \/ FillResting
    \/ FillAggressor
    \/ FillUnknown
    \/ CancelResting
    \/ CancelUnknown
    \/ ModifyResting
    \/ ModifyQuantity
    \/ ModifyUnknown
    \/ InteractiveMode
    \/ CmdN
    \/ CmdP
    \/ CmdJump

SpecN == Init /\ [][NextN]_vars

\* ================================================== cross-validation harness
\* A test output directory is what _validate_test_output finds in it:
\* whether deltas.csv and states/ exist, and what the validation of its
\* files does: it raises, or validate_all yields its results (match only).
\* validate_all yields at least one result.
TestDirs ==
    LET Validations ==
            {[raises |-> TRUE, results |-> <<>>]}
            \cup {[raises |-> FALSE,
                   results |-> [i \in 1..n |-> [match |-> ms[i]]]] :
                    n \in 1..MaxSnaps, ms \in [1..MaxSnaps -> BOOLEAN]}
    IN  [name : {"test_0"}, deltas : BOOLEAN, states : BOOLEAN,
         validation : Validations]

ValidationResult(name, status, state_comparisons, state_failures, error_message) ==
    [name |-> name, status |-> status, state_comparisons |-> state_comparisons,
     state_failures |-> state_failures, error_message |-> error_message]

\* a validation whose verdict is that of the last result
_validate_test_output_last(test_dir) ==
    IF ~test_dir.deltas
    THEN ValidationResult(test_dir.name, "ERROR", 0, 0, "Missing deltas.csv")
    ELSE IF ~test_dir.states
    THEN ValidationResult(test_dir.name, "ERROR", 0, 0, "Missing states/ directory")
    ELSE IF test_dir.validation.raises
    THEN ValidationResult(test_dir.name, "ERROR", 0, 0, "str(e)")
    ELSE LET yielded  == test_dir.validation.results
             failures == SelectSeq(yielded, LAMBDA r : ~r.match)
         IN  IF yielded = <<>>
             THEN ValidationResult(test_dir.name, "ERROR", 0, 0,
                                   "No state files to validate")
             ELSE IF ~yielded[Len(yielded)].match
             THEN ValidationResult(test_dir.name, "FAILED", Len(yielded),
                                   Len(failures), "")
             ELSE ValidationResult(test_dir.name, "PASSED", Len(yielded), 0, "")

_validate_test_output(test_dir) ==
    IF ~test_dir.deltas
    THEN ValidationResult(test_dir.name, "ERROR", 0, 0, "Missing deltas.csv")
    ELSE IF ~test_dir.states
    THEN ValidationResult(test_dir.name, "ERROR", 0, 0, "Missing states/ directory")
    ELSE IF test_dir.validation.raises
    THEN ValidationResult(test_dir.name, "ERROR", 0, 0, "str(e)")
    ELSE LET yielded  == test_dir.validation.results
             failures == SelectSeq(yielded, LAMBDA r : ~r.match)
         IN  IF yielded = <<>>
             THEN ValidationResult(test_dir.name, "ERROR", 0, 0,
                                   "No state files to validate")
             ELSE IF failures # <<>>
             THEN ValidationResult(test_dir.name, "FAILED", Len(yielded),
                                   Len(failures), "")
             ELSE ValidationResult(test_dir.name, "PASSED", Len(yielded), 0, "")

\* HarnessResult.success of a list of tests that counts failures only
success_failed_only(result_tests) == Cardinality({i \in 1..Len(result_tests) : result_tests[i].status = "FAILED"}) = 0

\* HarnessResult.success: failed == 0 and errors == 0
success(result_tests) ==
    LET failed == Cardinality({i \in 1..Len(result_tests) :
                                    result_tests[i].status = "FAILED"})
        errors == Cardinality({i \in 1..Len(result_tests) :
                                    result_tests[i].status = "ERROR"})
    IN  failed = 0 /\ errors = 0

\* CrossValidationHarness.run: the tests of the HarnessResult it returns.
\* binary: find_binary found one; cpp_success: the C++ tests returned 0;
\* test_dirs: what _discover_test_outputs yields, in order
run(binary, cpp_success, test_dirs) ==
    IF ~binary THEN <<>>
    ELSE IF ~cpp_success
    THEN << ValidationResult("cpp_execution", "ERROR", 0, 0, "stderr") >>
    ELSE IF test_dirs = <<>>
    THEN << ValidationResult("discovery", "SKIPPED", 0, 0,
                             "No test output directories found") >>
    ELSE [i \in 1..Len(test_dirs) |-> _validate_test_output(test_dirs[i])]

\* main(): the harness runs, the summary is printed, the exit code returned.
\* A discovered directory has a states/ directory with a state file in it.
HarnessMain ==
    /\ exit_code = -1
    /\ \E binary \in BOOLEAN, cpp_success \in BOOLEAN :
        \E n \in 0..MaxSnaps :
            \E test_dirs \in [1..n -> {d \in TestDirs : d.states}] :
                /\ tests' = run(binary, cpp_success, test_dirs)
                /\ validated' =
                        (IF binary /\ cpp_success
                         THEN validated \o
                              [i \in 1..n |->
                                    [test_dir |-> test_dirs[i], result |-> tests'[i]]]
                         ELSE validated)
                /\ exit_code' = (IF success(tests') THEN 0 ELSE 1)
    /\ UNCHANGED <<bvars, vvars, cvars, ivars, avars, nvars>>

\* harness._validate_test_output(test_dir) called on a directory, as the
\* tests call it
ValidateTestOutput ==
    /\ exit_code = -1
    /\ validated = <<>>
    /\ \E test_dir \in TestDirs :
        validated' = Append(validated,
            [test_dir |-> test_dir, result |-> _validate_test_output(test_dir)])
    /\ UNCHANGED <<tests, exit_code>>
    /\ UNCHANGED <<bvars, vvars, cvars, ivars, avars, nvars>>

InitH ==
    /\ BookOff
    /\ ValidatorOff
    /\ HarnessOff

NextH ==
    \/ HarnessMain
    \/ ValidateTestOutput

SpecH == InitH /\ [][NextH]_vars

\* ================================================================ claims
\* the delta the last step back has undone
Undone == stream[cursor + 1]

IsRemoval(d) ==
    d.delta_type = "CANCEL" \/ (d.delta_type = "FILL" /\ d.remaining_qty = 0)

\* the queue of a recorded state that holds the id, <<>> when the registry
\* does not know it
StateQueue(st, id) ==
    IF id \notin DOMAIN st.registry THEN <<>>
    ELSE LET p  == st.registry[id][1]
             sd == IF st.registry[id][2] = "BUY" THEN st.bids ELSE st.asks
         IN  IF p \in DOMAIN sd THEN sd[p] ELSE <<>>

\* 1-based index of the id in its queue of a recorded state, 0 when absent
StateIndex(st, id) ==
    LET q == StateQueue(st, id)
    IN  IF \E i \in 1..Len(q) : q[i][1] = id
        THEN CHOOSE i \in 1..Len(q) :
                q[i][1] = id /\ \A j \in 1..(i - 1) : q[j][1] # id
        ELSE 0

\* ids that some queue of the book holds
QueuedIds(b) ==
    UNION {{b.bids[p][i].order_id : i \in 1..Len(b.bids[p])} : p \in DOMAIN b.bids}
    \cup
    UNION {{b.asks[p][i].order_id : i \in 1..Len(b.asks[p])} : p \in DOMAIN b.asks}

\* the stream names the id, and names it in FILL deltas only
FillOnly(s, id) ==
    /\ \E i \in 1..Len(s) : s[i].order_id = id
    /\ \A i \in 1..Len(s) :
          /\ s[i].order_id = id => s[i].delta_type = "FILL"
          /\ s[i].delta_type = "MODIFY" => s[i].new_order_id # id

\* C1: a stream applied forward to the empty book and then undone in reverse
\* order (each undo with the timestamp of the preceding step) passes again
\* through every state recorded on the way forward, down to the empty book.
C1_RoundTrip ==
    phase \in {"gen", "rev"} => get_book_state(book) = states[cursor + 1]

\* C2: undoing a full FILL or a CANCEL of a resting order puts the order back
\* at the index of its queue that it had before the forward delta.
C2_RestoredIndex ==
    (/\ phase = "rev"
     /\ IsRemoval(Undone)
     /\ StateIndex(states[cursor + 1], Undone.order_id) > 0)
    => /\ Undone.order_id \in DOMAIN book.registry
       /\ book.registry[Undone.order_id] = states[cursor + 1].registry[Undone.order_id]
       /\ StateIndex(get_book_state(book), Undone.order_id)
            = StateIndex(states[cursor + 1], Undone.order_id)

\* C3: one delta of any type applied to the empty book and undone leaves the
\* queues, the registry and order_add_timestamps as they were, and the
\* timestamp at prev_timestamp.
C3_SingleDelta ==
    (phase = "rev" /\ Len(stream) = 1 /\ cursor = 0) => book = EmptyBook

\* C4: an id the stream names in FILL deltas only is in no queue and not in
\* the registry, whatever was applied and undone.
C4_AggressorNeverRests ==
    \A id \in 1..MaxId :
        FillOnly(stream, id) =>
            id \notin DOMAIN book.registry /\ id \notin QueuedIds(book)

\* the full FILL of an aggressor has been undone while other orders rest
C4_Witness ==
    /\ phase = "rev"
    /\ Undone.delta_type = "FILL"
    /\ Undone.remaining_qty = 0
    /\ FillOnly(stream, Undone.order_id)
    /\ Undone.order_id \notin DOMAIN book.order_add_timestamps
    /\ QueuedIds(book) # {}

\* C5: queues and registry agree, in both directions, and no price maps to an
\* empty queue.
C5_RegistryAgrees ==
    /\ \A side \in Sides : \A p \in DOMAIN _get_book(book, side) :
          LET q == _get_book(book, side)[p]
          IN  /\ Len(q) > 0
              /\ \A i \in 1..Len(q) :
                    /\ q[i].order_id \in DOMAIN book.registry
                    /\ book.registry[q[i].order_id] = <<p, side>>
    /\ \A id \in DOMAIN book.registry : get_order(book, id) # NoOrder

\* C6: in every queue the timestamps do not decrease from head to tail.
C6_QueueSorted ==
    \A side \in Sides : \A p \in DOMAIN _get_book(book, side) :
        LET q == _get_book(book, side)[p]
        IN  \A i \in 1..(Len(q) - 1) : q[i].timestamp <= q[i + 1].timestamp

\* C7: a forward FILL or CANCEL of an id the registry does not know changes
\* nothing but the book's timestamp, which becomes the delta's.
C7_UnknownIsNoOp ==
    [][(/\ cursor' = cursor + 1
        /\ stream'[cursor'].delta_type \in {"FILL", "CANCEL"}
        /\ stream'[cursor'].order_id \notin DOMAIN book.registry)
       => book' = [book EXCEPT !.timestamp = stream'[cursor'].timestamp]]_vars

\* a FILL or CANCEL of an unknown id has just been applied to a book that
\* holds orders, and the timestamp has moved
C7_Witness ==
    /\ phase = "gen"
    /\ cursor > 0
    /\ stream[cursor].delta_type \in {"FILL", "CANCEL"}
    /\ stream[cursor].order_id \notin DOMAIN states[cursor].registry
    /\ stream[cursor].order_id \in DOMAIN book.order_add_timestamps
    /\ DOMAIN book.registry # {}
    /\ book.timestamp > states[cursor].timestamp

\* ------------------------------------------------------- validate_all claims
Last(s) == s[Len(s)]

Occurrences(log, x) == Cardinality({i \in 1..Len(log) : log[i] = x})

\* the books a log of apply_delta calls leaves, started empty
RECURSIVE BooksOf(_, _)
BooksOf(log, n) ==
    IF n = 0 THEN [inst_id \in instrument_ids |-> EmptyBook]
    ELSE [BooksOf(log, n - 1) EXCEPT ![log[n].inst_id] = apply_delta(@, log[n].delta)]

\* the ledger a log of on_trade calls leaves, started empty
RECURSIVE LedgerOf(_, _)
LedgerOf(log, n) ==
    IF n = 0 THEN EmptyMap
    ELSE on_trade(LedgerOf(log, n - 1), log[n].buyer_id, log[n].seller_id,
                  log[n].price, log[n].quantity)

\* a snapshot has just been compared
Compared ==
    pc \in {"running", "done"} /\ cpp_states # <<>> /\ Last(cpp_states).found

\* the state file is the engine's state at the end of its tick
Faithful(st) == st.found /\ st = EngineState(st.sequence_num, st.timestamp)

\* the latest tick a loaded state file carried
LatestT ==
    LET ts == {cpp_states[i].timestamp : i \in 1..Len(cpp_states)} \cup {-1}
    IN  Max(ts)

\* C8: when the snapshot of timestamp T is compared, every delta of a
\* validated instrument with timestamp <= T has been applied to the book of
\* its instrument and every trade with timestamp <= T to the ledger, no row
\* more than once in the whole run, the deltas in ascending
\* (timestamp, sequence_num) order and the trades in ascending timestamp
\* order, and nothing else has touched the books or the ledger.
C8_AppliedUpToT ==
    Compared =>
        LET T == Last(cpp_states).timestamp
        IN  /\ \A i \in 1..Len(deltas_file) :
                   LET d == deltas_file[i]
                       n == Occurrences(applied_deltas,
                                [inst_id |-> d.instrument_id, delta |-> d])
                   IN  IF d.timestamp <= T /\ d.instrument_id \in instrument_ids
                       THEN n = 1 ELSE n <= 1
            /\ \A i \in 1..Len(applied_deltas) :
                   /\ applied_deltas[i].delta \in Range(deltas_file)
                   /\ applied_deltas[i].inst_id = applied_deltas[i].delta.instrument_id
                   /\ applied_deltas[i].inst_id \in instrument_ids
            /\ \A i, j \in 1..Len(applied_deltas) :
                   i < j =>
                     LET a == applied_deltas[i].delta
                         b == applied_deltas[j].delta
                     IN  \/ a.timestamp < b.timestamp
                         \/ a.timestamp = b.timestamp /\ a.sequence_num < b.sequence_num
            /\ books = BooksOf(applied_deltas, Len(applied_deltas))
            /\ \A i \in 1..Len(trades_file) :
                   LET n == Occurrences(applied_trades, trades_file[i])
                   IN  IF trades_file[i].timestamp <= T THEN n = 1 ELSE n <= 1
            /\ \A i \in 1..Len(applied_trades) :
                   applied_trades[i] \in Range(trades_file)
            /\ \A i, j \in 1..Len(applied_trades) :
                   i < j => applied_trades[i].timestamp <= applied_trades[j].timestamp
            /\ pnl = LedgerOf(applied_trades, Len(applied_trades))

\* two snapshots compared; the file lists the deltas out of order, one of them
\* belongs to an instrument that is not validated, one became due only with
\* the second snapshot, and a trade was applied
C8_Witness ==
    /\ Compared
    /\ Len(cpp_states) = 2
    /\ cpp_states[1].found
    /\ cpp_states[1].timestamp < cpp_states[2].timestamp
    /\ deltas_file # all_deltas
    /\ Len(applied_deltas) >= 2
    /\ \E i \in 1..Len(deltas_file) : deltas_file[i].instrument_id \notin instrument_ids
    /\ \E i \in 1..Len(applied_deltas) :
          applied_deltas[i].delta.timestamp > cpp_states[1].timestamp
    /\ applied_trades # <<>>

\* one result per state file so far, in the order of the sequence numbers,
\* the run ending only with the last file; a comparison that finds
\* differences yields match = false; which deltas and trades are applied
\* depends on the timestamps of the state files only, not on the verdicts;
\* every content yields a result
OneResultPerSnapshot ==
    /\ state_files = Ascending(states_dir)
    /\ Len(results) = Len(cpp_states)
    /\ pc = "done" => Len(results) = Len(state_files)
    /\ pc = "running" => Len(results) < Len(state_files) /\ ENABLED Resume
    /\ \A i \in 1..Len(results) :
          /\ results[i].sequence_num = state_files[i]
          /\ results[i].match <=> results[i].differences = <<>>
          /\ ~cpp_states[i].found => ~results[i].match
    /\ {applied_deltas[i].delta : i \in 1..Len(applied_deltas)}
         = {d \in Range(deltas_file) :
               d.timestamp <= LatestT /\ d.instrument_id \in instrument_ids}
    /\ Range(applied_trades)
         = {t \in Range(trades_file) : t.timestamp <= LatestT}

\* C9 as stated: validate_all yields exactly one result per state file, in
\* sequence order; a mismatch yields match = false, does not stop the run and
\* does not change what is applied later; no content raises.
C9_OneResultPerSnapshot_Stated ==
    pc \in {"running", "done"} => OneResultPerSnapshot

\* C9: if the states directory holds at least one state file, validate_all
\* yields exactly one result per state file, in sequence order; a mismatch
\* yields match = false, does not stop the run and does not change what is
\* applied later; no content raises.
C9_OneResultPerSnapshot ==
    (pc \in {"running", "done"} /\ state_files # <<>>) => OneResultPerSnapshot

\* a state file with other content than the replay gave match = false, and
\* the next one was still compared, after further deltas, and matched
C9_Witness ==
    /\ pc = "done"
    /\ Len(results) = 2
    /\ cpp_states[1].found
    /\ ~results[1].match
    /\ results[2].match
    /\ \E i \in 1..Len(applied_deltas) :
          applied_deltas[i].delta.timestamp > cpp_states[1].timestamp

\* C10 as stated: if every state file is the engine's state at the end of its
\* tick, every result has match = true and no differences.
C10_FaithfulMatches_Stated ==
    (   /\ pc \in {"running", "done"}
        /\ \A i \in 1..Len(cpp_states) : Faithful(cpp_states[i]))
    => \A i \in 1..Len(results) :
          results[i].match /\ results[i].differences = <<>>

\* C10: if there is at least one state file, every state file is the engine's
\* state at the end of its tick, the ticks of the state files do not decrease
\* along the sequence numbers and the validator is set up with the instrument
\* ids of the engine, every result has match = true and no differences.
C10_FaithfulMatches ==
    (   /\ pc \in {"running", "done"}
        /\ state_files # <<>>
        /\ instrument_ids = instruments
        /\ \A i \in 1..Len(cpp_states) : Faithful(cpp_states[i])
        /\ \A i, j \in 1..Len(cpp_states) :
              i < j => cpp_states[i].timestamp <= cpp_states[j].timestamp)
    => \A i \in 1..Len(results) :
          results[i].match /\ results[i].differences = <<>>

\* two faithful state files of a two-instrument run, both matched, with a
\* fill and a trade replayed and orders still resting
C10_Witness ==
    /\ pc = "done"
    /\ Len(results) = 2
    /\ instruments = {1, 2}
    /\ instrument_ids = instruments
    /\ \A i \in 1..2 : Faithful(cpp_states[i]) /\ results[i].match
    /\ cpp_states[1].timestamp < cpp_states[2].timestamp
    /\ \E i \in 1..Len(applied_deltas) : applied_deltas[i].delta.delta_type = "FILL"
    /\ applied_trades # <<>>
    /\ \E inst_id \in instrument_ids : books[inst_id].registry # EmptyMap

\* ------------------------------------------------------------ comparator
\* the result of the compare_full_state call made, if any
FullStateResults ==
    {cmp_results[k].value : k \in {n \in 1..Len(cmp_results) :
                                      cmp_results[n].call = "compare_full_state"}}

\* the five compared fields of an order pair are equal
SameOrder(cpp_order, py_order) ==
    /\ cpp_order.order_id = py_order.order_id
    /\ cpp_order.client_id = py_order.client_id
    /\ cpp_order.quantity = py_order.quantity
    /\ cpp_order.price = py_order.price
    /\ cpp_order.side = py_order.side

\* the levels listed are the levels of the book, best price first, and each
\* lists the queue of the book, order by order
SameSide(cpp_levels, py_book_side, side) ==
    /\ Len(cpp_levels) = Cardinality(DOMAIN py_book_side)
    /\ {cpp_levels[i].price : i \in 1..Len(cpp_levels)} = DOMAIN py_book_side
    /\ \A i, j \in 1..Len(cpp_levels) :
            i < j => IF side = "BUY" THEN cpp_levels[i].price > cpp_levels[j].price
                     ELSE cpp_levels[i].price < cpp_levels[j].price
    /\ \A i \in 1..Len(cpp_levels) :
            LET cpp_orders == cpp_levels[i].orders
                py_orders  == py_book_side[cpp_levels[i].price]
            IN  /\ Len(cpp_orders) = Len(py_orders)
                /\ \A j \in 1..Len(cpp_orders) : SameOrder(cpp_orders[j], py_orders[j])

SameLedger(cpp_pnl, py_pnl) ==
    /\ DOMAIN cpp_pnl = DOMAIN py_pnl
    /\ \A c \in DOMAIN cpp_pnl :
            /\ cpp_pnl[c].long_position = py_pnl[c].long_position
            /\ cpp_pnl[c].short_position = py_pnl[c].short_position
            /\ cpp_pnl[c].cash = py_pnl[c].cash

Agree(cpp_state, py_books, py_pnl) ==
    /\ DOMAIN cpp_state.order_books = DOMAIN py_books
    /\ \A inst \in DOMAIN py_books :
            /\ SameSide(cpp_state.order_books[inst].bids, py_books[inst].bids, "BUY")
            /\ SameSide(cpp_state.order_books[inst].asks, py_books[inst].asks, "SELL")
    /\ SameLedger(cpp_state.pnl, py_pnl)

C12_ArgumentsKept ==
    [][cmp_results' # cmp_results =>
        /\ cmp_cpp_state' = cmp_cpp_state
        /\ cmp_py_books' = cmp_py_books
        /\ cmp_py_pnl' = cmp_py_pnl]_vars

\* a comparison of a book that holds orders and of a ledger that holds a
\* client has returned differences
C12_Witness ==
    /\ Len(cmp_results) = 1
    /\ cmp_results[1].call = "compare_full_state"
    /\ ~cmp_results[1].value.match
    /\ \E i \in DOMAIN cmp_py_books : cmp_py_books[i].registry # EmptyMap
    /\ cmp_py_pnl # EmptyMap
    /\ cmp_cpp_state.pnl # cmp_py_pnl

\* ---------------------------------------------------------------- ledger
\* C13: after any sequence of on_trade calls (any buyer and seller, the same
\* participant on both sides included, any price and quantity) total_cash()
\* and total_net_position() are zero.
C13_ZeroSum ==
    /\ total_cash(pnl) = 0
    /\ total_net_position(pnl) = 0

\* a trade of a participant with itself and a trade between two participants
\* have been applied, and money and positions have moved
C13_Witness ==
    /\ \E i \in 1..Len(applied_trades) :
            /\ applied_trades[i].buyer_id = applied_trades[i].seller_id
            /\ applied_trades[i].quantity > 0
    /\ \E i \in 1..Len(applied_trades) :
            /\ applied_trades[i].buyer_id # applied_trades[i].seller_id
            /\ applied_trades[i].quantity > 0
    /\ \E c \in DOMAIN pnl : pnl[c].cash < 0
    /\ Cardinality(DOMAIN pnl) = 3

\* the entry on_trade finds or creates for a participant
EntryOf(p, c) == IF c \in DOMAIN p THEN p[c] ELSE PnLState

\* what every on_trade step does whoever trades: positions of buyer and
\* seller grow by the quantity, nothing is netted, entries are created and
\* no other entry changes
TradeStep(t) ==
    /\ DOMAIN pnl' = DOMAIN pnl \cup {t.buyer_id, t.seller_id}
    /\ pnl'[t.buyer_id].long_position =
            EntryOf(pnl, t.buyer_id).long_position + t.quantity
    /\ pnl'[t.seller_id].short_position =
            EntryOf(pnl, t.seller_id).short_position + t.quantity
    /\ \A c \in DOMAIN pnl' :
            /\ pnl'[c].long_position >= EntryOf(pnl, c).long_position
            /\ pnl'[c].short_position >= EntryOf(pnl, c).short_position
    /\ \A c \in DOMAIN pnl \ {t.buyer_id, t.seller_id} : pnl'[c] = pnl[c]

\* C14 as stated: on_trade increases the buyer's long_position by qty and
\* decreases the buyer's cash by qty*price, increases the seller's
\* short_position by qty and increases the seller's cash by qty*price, never
\* nets long against short, creates the entries if absent and leaves every
\* other participant's entry unchanged.
C14_TradeEffect_Stated ==
    [][applied_trades' # applied_trades =>
        LET t == Last(applied_trades')
        IN  /\ TradeStep(t)
            /\ pnl'[t.buyer_id].cash =
                    EntryOf(pnl, t.buyer_id).cash - t.quantity * t.price
            /\ pnl'[t.seller_id].cash =
                    EntryOf(pnl, t.seller_id).cash + t.quantity * t.price]_vars

\* C14 (amended): the effect on the cash of buyer and seller is the stated
\* one when they are two participants; a participant trading with itself
\* gains qty long and qty short and keeps its cash.
C14_TradeEffect ==
    [][applied_trades' # applied_trades =>
        LET t == Last(applied_trades')
        IN  /\ TradeStep(t)
            /\ t.buyer_id # t.seller_id =>
                /\ pnl'[t.buyer_id].cash =
                        EntryOf(pnl, t.buyer_id).cash - t.quantity * t.price
                /\ pnl'[t.seller_id].cash =
                        EntryOf(pnl, t.seller_id).cash + t.quantity * t.price
                /\ pnl'[t.buyer_id].short_position =
                        EntryOf(pnl, t.buyer_id).short_position
                /\ pnl'[t.seller_id].long_position =
                        EntryOf(pnl, t.seller_id).long_position
            /\ t.buyer_id = t.seller_id =>
                pnl'[t.buyer_id].cash = EntryOf(pnl, t.buyer_id).cash]_vars

\* the last of three trades was between a participant that had sold before
\* and one that had no entry, after a participant traded with itself
C14_Witness ==
    /\ Len(applied_trades) = 3
    /\ applied_trades[1].buyer_id = 3 /\ applied_trades[1].seller_id = 3
    /\ applied_trades[2].buyer_id = 3 /\ applied_trades[2].seller_id = 1
    /\ applied_trades[3].buyer_id = 1 /\ applied_trades[3].seller_id = 2
    /\ \A i \in 1..3 : applied_trades[i].quantity > 0
    /\ pnl[1].long_position > 0 /\ pnl[1].short_position > 0
    /\ pnl[3].cash < 0

\* ----------------------------------------------------------------- index
\* the rows of the file are in non-decreasing order of timestamp
SortedFile == \A i, j \in 1..Len(idx_file) :
                i < j => idx_file[i].timestamp <= idx_file[j].timestamp

\* the calls of a method made with an index in range
InRange(call) ==
    {c \in {idx_out[n] : n \in 1..Len(idx_out)} :
        c.call = call /\ 0 <= c.arg /\ c.arg < Len(delta_index.timestamps)}

\* the rows of the file that satisfy Test, in file order
RowsWhere(Test(_)) == SelectSeq(idx_file, Test)

\* C15: on a file sorted by timestamp read_deltas_at_index(k), for every
\* 0 <= k < len(index), returns exactly the rows whose timestamp is
\* timestamps[k], in file order, and no row of another timestamp.
C15_ReadAtExact ==
    SortedFile =>
        \A c \in InRange("read_deltas_at_index") :
            LET AtTick(row) == row.timestamp = delta_index.timestamps[c.arg + 1]
            IN  c.value = RowsWhere(AtTick)

\* the two rows of a tick that is neither the first nor the last of a sorted
\* file have been read
C15_Witness ==
    /\ SortedFile
    /\ \E c \in InRange("read_deltas_at_index") :
        /\ c.arg = 1
        /\ Len(c.value) = 2
        /\ Len(delta_index.timestamps) = 3

\* C16: on a file sorted by timestamp read_deltas_up_to_index(k), for
\* 0 <= k < len(index), yields in file order every row from the first record
\* through the last row with timestamp timestamps[k] and no row with a larger
\* timestamp; it contains every row read_deltas_at_index(k) returns.
C16_ReadUpToPrefix ==
    SortedFile =>
        \A c \in InRange("read_deltas_up_to_index") :
            LET end_ts == delta_index.timestamps[c.arg + 1]
                last == CHOOSE i \in 1..Len(idx_file) :
                            /\ idx_file[i].timestamp = end_ts
                            /\ \A j \in (i + 1)..Len(idx_file) :
                                    idx_file[j].timestamp # end_ts
                at == read_deltas_at_index(idx_file, delta_index, c.arg)
            IN  /\ c.value = SubSeq(idx_file, 1, last)
                /\ \A n \in 1..Len(c.value) : c.value[n].timestamp <= end_ts
                /\ \A n \in 1..Len(at) :
                        \E m \in 1..Len(c.value) : c.value[m] = at[n]

\* of a sorted file of four rows the first three have been yielded: one of
\* an earlier tick and the two of the tick asked for
C16_Witness ==
    /\ SortedFile
    /\ Len(idx_file) = 4
    /\ \E c \in InRange("read_deltas_up_to_index") :
        /\ c.arg = 1
        /\ Len(c.value) = 3
        /\ c.value[1].timestamp < c.value[2].timestamp
        /\ c.value[2].timestamp = c.value[3].timestamp

\* distance of the timestamp at position i of the index from a tick
Distance(i, target_ts) == Abs(delta_index.timestamps[i] - target_ts)

FindCalls ==
    {c \in {idx_out[n] : n \in 1..Len(idx_out)} : c.call = "find_timestamp_index"}

\* C17: on a non-empty index find_timestamp_index(ts) returns the index k
\* with timestamps[k] = ts when ts is present; otherwise an index whose
\* timestamp minimises |timestamps[k] - ts|, the lower index when two
\* timestamps are equidistant from ts.
C17_FindClosest ==
    delta_index.timestamps # <<>> =>
        \A c \in FindCalls :
            LET k == c.value.value + 1
                n == Len(delta_index.timestamps)
            IN  /\ ~c.value.raised
                /\ k \in 1..n
                /\ (\E i \in 1..n : delta_index.timestamps[i] = c.arg)
                        => delta_index.timestamps[k] = c.arg
                /\ \A i \in 1..n : Distance(k, c.arg) <= Distance(i, c.arg)
                /\ \A i \in 1..(k - 1) : Distance(i, c.arg) > Distance(k, c.arg)

\* a tick that is not in the index and has a timestamp at the same distance
\* on either side has been looked up
C17_Witness ==
    \E c \in FindCalls :
        /\ ~c.value.raised
        /\ Distance(c.value.value + 1, c.arg) > 0
        /\ \E i \in 1..Len(delta_index.timestamps) :
                /\ i > c.value.value + 1
                /\ Distance(i, c.arg) = Distance(c.value.value + 1, c.arg)
                /\ delta_index.timestamps[i] # delta_index.timestamps[c.value.value + 1]

\* -------------------------------------------------------------- analyzer
\* the fills of the run made, if any
Fills == IF as_out = <<>> THEN <<>> ELSE as_out[1].fills

Emitted(t) == \E n \in 1..Len(Fills) : Fills[n].trade_id = t.trade_id

\* the market maker was resting on the sell side, on the buy side
MakerSell(t) == t.aggressor_side = "BUY" /\ t.seller_id = MM_CLIENT_ID

MakerBuy(t) == t.aggressor_side = "SELL" /\ t.buyer_id = MM_CLIENT_ID

\* a record is emitted only for a trade with the market maker resting, with
\* its side, its order and the other party; none when its order is unknown
OnlyMakerFills(t) ==
    /\ \A n \in 1..Len(Fills) :
            Fills[n].trade_id = t.trade_id =>
                \/ /\ MakerSell(t)
                   /\ Fills[n].mm_side = "SELL"
                   /\ Fills[n].mm_order_id = t.seller_order_id
                   /\ Fills[n].counterparty_id = t.buyer_id
                \/ /\ MakerBuy(t)
                   /\ Fills[n].mm_side = "BUY"
                   /\ Fills[n].mm_order_id = t.buyer_order_id
                   /\ Fills[n].counterparty_id = t.seller_id
    /\ (MakerSell(t) /\ t.seller_order_id \notin DOMAIN as_out[1].order_lifecycle)
            => ~Emitted(t)
    /\ (MakerBuy(t) /\ t.buyer_order_id \notin DOMAIN as_out[1].order_lifecycle)
            => ~Emitted(t)

\* C18 as stated: compute_mm_fills emits a record for a trade only when the
\* market maker was the resting side (aggressor BUY and seller MM: side SELL,
\* seller_order_id, counterparty buyer; aggressor SELL and buyer MM: side
\* BUY, buyer_order_id, counterparty seller); a trade in which the MM was the
\* aggressor or was not involved, or whose mm_order_id is not in the
\* lifecycle map, produces no record.
C18_OnlyMakerFills_Stated ==
    as_out # <<>> =>
        \A i \in 1..Len(as_trades) :
            LET t == as_trades[i]
                aggressor ==
                    \/ t.aggressor_side = "BUY" /\ t.buyer_id = MM_CLIENT_ID
                    \/ t.aggressor_side = "SELL" /\ t.seller_id = MM_CLIENT_ID
                not_involved ==
                    t.buyer_id # MM_CLIENT_ID /\ t.seller_id # MM_CLIENT_ID
            IN  /\ OnlyMakerFills(t)
                /\ (aggressor \/ not_involved) => ~Emitted(t)

\* C18 (amended): no record for a trade in which the market maker was not
\* the resting side; a trade with the market maker on both sides is a maker
\* fill although the market maker was the aggressor too.
C18_OnlyMakerFills ==
    as_out # <<>> =>
        \A i \in 1..Len(as_trades) :
            LET t == as_trades[i]
            IN  /\ OnlyMakerFills(t)
                /\ ~(MakerSell(t) \/ MakerBuy(t)) => ~Emitted(t)

\* a sell aggressor of client 20 has hit a known order of the market maker
\* and the fill has been emitted
C18_Witness ==
    /\ Len(Fills) = 1
    /\ Len(as_trades) = 1
    /\ as_trades[1].aggressor_side = "SELL"
    /\ as_trades[1].buyer_id = MM_CLIENT_ID
    /\ as_trades[1].seller_id = 20
    /\ Fills[1].mm_side = "BUY"
    /\ Fills[1].mm_order_id = as_trades[1].buyer_order_id

\* the row makes the order id resting: its ADD, or a MODIFY that names it
Names(row, id) ==
    \/ row.delta_type = "ADD" /\ row.order_id = id
    \/ row.delta_type = "MODIFY" /\ (row.order_id = id \/ row.new_order_id = id)

\* C19: a price-changing MODIFY at tick m that replaces order id a by
\* new_order_id b resets the quote-age clock: a later maker fill of b at tick
\* f is reported with quote_age = f - m (the MODIFY being the last row up to
\* the fill that makes b resting).
C19_ModifyResetsAge ==
    \A n \in 1..Len(as_deltas), k \in 1..Len(Fills) :
        LET d == as_deltas[n]
            fill == Fills[k]
        IN  (/\ d.delta_type = "MODIFY"
             /\ d.new_order_id # 0
             /\ d.new_price # d.price
             /\ fill.mm_order_id = d.new_order_id
             /\ fill.fill_timestamp > d.timestamp
             /\ \A j \in (n + 1)..Len(as_deltas) :
                    Names(as_deltas[j], d.new_order_id)
                        => as_deltas[j].timestamp > fill.fill_timestamp)
            => fill.quote_age = fill.fill_timestamp - d.timestamp

\* C20: for every emitted maker fill quote_age is the interval between the
\* fill tick and the most recent tick at or before the fill at which the
\* filled order id became resting, also when a MODIFY names the id at a tick
\* later than the fill; quote_age is never negative.  (Fills of an order
\* that no row has made resting by the fill tick are left aside.)
C20_QuoteAge ==
    \A k \in 1..Len(Fills) :
        LET fill == Fills[k]
            ticks == {as_deltas[n].timestamp : n \in
                        {j \in 1..Len(as_deltas) :
                            /\ Names(as_deltas[j], fill.mm_order_id)
                            /\ as_deltas[j].timestamp <= fill.fill_timestamp}}
        IN  ticks # {} =>
                /\ fill.quote_age = fill.fill_timestamp - Max(ticks)
                /\ fill.quote_age >= 0

\* the trade an emitted fill belongs to
TradeOf(fill) ==
    CHOOSE t \in Range(as_trades) : t.trade_id = fill.trade_id

\* C21: for every emitted maker fill immediate_as is (fair price recorded on
\* the trade - fill price) for mm_side BUY and (fill price - fair price
\* recorded on the trade) for mm_side SELL, an integer; it is positive
\* exactly when the market maker bought below or sold above the fair price.
C21_ImmediateAS ==
    \A k \in 1..Len(Fills) :
        LET fill == Fills[k]
            t == TradeOf(fill)
        IN  /\ fill.mm_side \in Sides
            /\ fill.fill_price = t.price
            /\ fill.fair_price = t.fair_price
            /\ fill.immediate_as \in Int
            /\ fill.mm_side = "BUY" => fill.immediate_as = t.fair_price - t.price
            /\ fill.mm_side = "SELL" => fill.immediate_as = t.price - t.fair_price
            /\ fill.immediate_as > 0 <=>
                    \/ fill.mm_side = "BUY" /\ t.price < t.fair_price
                    \/ fill.mm_side = "SELL" /\ t.price > t.fair_price

\* the market maker has sold above the fair price recorded on the trade
C21_Witness ==
    /\ Len(Fills) = 1
    /\ Fills[1].mm_side = "SELL"
    /\ Fills[1].fill_price > Fills[1].fair_price
    /\ Fills[1].immediate_as = 2

\* indices of the points of the fair-price series at or after a tick
AtOrAfter(target) == {i \in 1..Len(FairTs) : FairTs[i] >= target}

\* C22: for every emitted fill and every horizon h, realized_as[h] is taken
\* from the first point of the sorted fair-price series whose timestamp is
\* >= fill_ts + h (future_fp - fill_price for BUY, fill_price - future_fp for
\* SELL), never from an earlier point; it is none exactly when the series
\* has no such point, and a none horizon suppresses neither the fill record
\* nor its other horizons.
C22_RealizedAS ==
    /\ \A k \in 1..Len(Fills) :
        LET fill == Fills[k]
        IN  /\ DOMAIN fill.realized_as = Horizons
            /\ \A h \in Horizons :
                LET pts == AtOrAfter(fill.fill_timestamp + h)
                    first == CHOOSE i \in pts : \A j \in pts : i <= j
                IN  /\ fill.realized_as[h] = <<>> <=> pts = {}
                    /\ pts # {} =>
                        fill.realized_as[h] =
                            << IF fill.mm_side = "BUY"
                               THEN FairPrices[first] - fill.fill_price
                               ELSE fill.fill_price - FairPrices[first] >>
    /\ as_out # <<>> =>
        \A i \in 1..Len(as_trades) :
            LET t == as_trades[i]
                known(id) == id \in DOMAIN as_out[1].order_lifecycle
            IN  (\/ MakerSell(t) /\ known(t.seller_order_id)
                 \/ ~MakerSell(t) /\ MakerBuy(t) /\ known(t.buyer_order_id))
                    => Emitted(t)

\* a fill at tick 2 has been emitted: the horizon 1 is measured against the
\* point of tick 3 and the horizon 3 has no point
C22_Witness ==
    /\ Len(Fills) = 1
    /\ Fills[1].fill_timestamp = 2
    /\ Fills[1].mm_side = "BUY"
    /\ Fills[1].realized_as[1] = <<FairPrices[2] - Fills[1].fill_price>>
    /\ Fills[1].realized_as[3] = <<>>

\* C23: the validator command exits with code 0 if and only if every
\* ComparisonResult yielded by validate_all has match = true, and with code 1
\* otherwise, also when the states directory holds no snapshot file.
C23_ExitCode ==
    pc = "done" =>
        /\ main \in {0, 1}
        /\ main = 0 <=> \A i \in 1..Len(results) : results[i].match
        /\ states_dir = {} => main = 1

\* a run of two comparisons that both matched has exited with code 0
C23_Witness ==
    /\ pc = "done"
    /\ Len(results) = 2
    /\ main = 0

\* ---------------------------------------------------------------- book
\* positions of the stream at which a tick is complete: the start, the end,
\* and every position where the timestamp changes
TickEnd(c) ==
    \/ c = 0
    \/ c = Len(stream)
    \/ c < Len(stream) /\ stream[c].timestamp # stream[c + 1].timestamp

\* the state recorded after c forward deltas has no bid at or above an ask
Settled(c) ==
    LET st == states[c + 1]
    IN  \A p \in DOMAIN st.bids, q \in DOMAIN st.asks : p < q

\* C24: after all deltas of a tick have been applied, or all deltas of a
\* tick have been reversed, whenever both sides of the book are non-empty the
\* best bid price is strictly less than the best ask price, so spread() is
\* strictly positive (for a stream whose forward replay is settled at the
\* end of every tick).
C24_NoCrossedBook ==
    (/\ \A c \in 0..Len(stream) : TickEnd(c) => Settled(c)
     /\ TickEnd(cursor))
        => (spread(book) # <<>> => spread(book)[1] > 0)

\* the delta is a FILL that leaves a remainder, and its order is resting in b
PartialFillOf(b, d) ==
    /\ d.delta_type = "FILL"
    /\ d.remaining_qty > 0
    /\ get_order(b, d.order_id) # NoOrder

\* b2 is b but for the quantity of one queued order of the id, which is qty:
\* the same price levels, queue lengths and order of the queues, every other
\* field of every order, the registry and the birth_ts map
OnlyQuantity(b, b2, id, qty) ==
    LET differs(side) ==
            {<<p, i>> \in (DOMAIN _get_book(b, side)) \X (1..(MaxLen + 1)) :
                /\ i <= Len(_get_book(b, side)[p])
                /\ _get_book(b2, side)[p][i] # _get_book(b, side)[p][i]}
    IN  /\ b2.registry = b.registry
        /\ b2.order_add_timestamps = b.order_add_timestamps
        /\ \A side \in Sides :
            /\ DOMAIN _get_book(b2, side) = DOMAIN _get_book(b, side)
            /\ \A p \in DOMAIN _get_book(b, side) :
                LET q  == _get_book(b, side)[p]
                    q2 == _get_book(b2, side)[p]
                IN  /\ Len(q2) = Len(q)
                    /\ \A i \in 1..Len(q) :
                        \/ q2[i] = q[i]
                        \/ /\ q[i].order_id = id
                           /\ q2[i] = [q[i] EXCEPT !.quantity = qty]
        /\ Cardinality(differs("BUY")) + Cardinality(differs("SELL")) <= 1
        /\ get_order(b2, id) = [get_order(b, id) EXCEPT !.quantity = qty]

\* C25: apply_delta of a FILL with remaining_qty > 0 on a resting order
\* changes only that order's quantity, to remaining_qty, and
\* apply_reverse_delta of the same delta changes only that order's quantity,
\* to remaining_qty + quantity; the order's queue position, price and
\* timestamp, every other order, the registry and the birth_ts map stay as
\* they were, so that fills of one order undone in opposite order give back
\* each intermediate quantity.
C25_PartialFillFrame ==
    [][/\ (cursor' = cursor + 1 /\ PartialFillOf(book, stream'[cursor']))
            => OnlyQuantity(book, book', stream'[cursor'].order_id,
                            stream'[cursor'].remaining_qty)
       /\ (cursor' = cursor - 1 /\ PartialFillOf(book, stream[cursor]))
            => OnlyQuantity(book, book', stream[cursor].order_id,
                            stream[cursor].remaining_qty + stream[cursor].quantity)
      ]_vars

\* a partial fill and then the full fill of order 1 have been undone in
\* opposite order: order 1 is back with the quantity it had before its
\* first fill
C25_Witness ==
    /\ phase = "rev"
    /\ Len(stream) = 3
    /\ cursor = 1
    /\ stream[2].delta_type = "FILL" /\ stream[2].order_id = 1
    /\ stream[2].remaining_qty > 0
    /\ stream[3].delta_type = "FILL" /\ stream[3].order_id = 1
    /\ stream[3].remaining_qty = 0
    /\ get_order(book, 1) # NoOrder
    /\ get_order(book, 1).quantity = stream[2].remaining_qty + stream[2].quantity

\* C26: apply_delta never removes an entry from the birth_ts map: after a
\* full FILL, a CANCEL or a MODIFY the removed (old) order id keeps its entry
\* with its original value; entries are removed only by apply_reverse_delta
\* of an ADD (for order_id) or of a MODIFY (for new_order_id).
C26_BirthRetained ==
    [][LET birth  == book.order_add_timestamps
           birth2 == book'.order_add_timestamps
       IN  /\ cursor' = cursor + 1 =>
               LET d == stream'[cursor']
               IN  /\ DOMAIN birth \subseteq DOMAIN birth2
                   /\ d.delta_type \in {"FILL", "CANCEL"} => birth2 = birth
                   /\ d.delta_type = "MODIFY" =>
                        /\ \A id \in DOMAIN birth \ {d.new_order_id} :
                              birth2[id] = birth[id]
                        /\ d.order_id \in DOMAIN birth =>
                              birth2[d.order_id] = birth[d.order_id]
           /\ cursor' = cursor - 1 =>
               LET d == stream[cursor]
               IN  /\ DOMAIN birth \ DOMAIN birth2 \subseteq
                        (CASE d.delta_type = "ADD" -> {d.order_id}
                           [] d.delta_type = "MODIFY" -> {d.new_order_id}
                           [] OTHER -> {})
                   /\ \A id \in DOMAIN birth2 :
                        id \in DOMAIN birth /\ birth2[id] = birth[id]
      ]_vars

\* order 1, added at tick 0 and replaced by a MODIFY at tick 1, is no longer
\* in the book and has kept its birth tick 0
C26_Witness ==
    /\ phase = "gen"
    /\ cursor = 2
    /\ stream[1].delta_type = "ADD" /\ stream[1].timestamp = 0
    /\ stream[2].delta_type = "MODIFY" /\ stream[2].order_id = 1
    /\ stream[2].timestamp = 1
    /\ 1 \notin DOMAIN book.registry
    /\ 1 \in DOMAIN book.order_add_timestamps
    /\ book.order_add_timestamps[1] = 0

\* the queue positions of the book that hold an order of the id
Places(b, id) ==
    {<<side, p, i>> \in Sides \X Prices \X (1..(MaxLen + 1)) :
        /\ p \in DOMAIN _get_book(b, side)
        /\ i <= Len(_get_book(b, side)[p])
        /\ _get_book(b, side)[p][i].order_id = id}

\* C27: after any sequence of apply_delta and apply_reverse_delta calls each
\* order id occurs at most once across all price-level queues of both sides,
\* and the number of resting orders equals the number of registry entries.
C27_IdsOnce ==
    /\ \A id \in QueuedIds(book) : Cardinality(Places(book, id)) = 1
    /\ BookSize(book) = Cardinality(DOMAIN book.registry)

\* C28: after forward-processing the same delta stream the Book's birth_ts
\* map (order_add_timestamps) and the analyzer's order-lifecycle map assign
\* the same tick to every order id that both track; in particular a MODIFY
\* refreshes the birth tick of the original order_id in the Book as it does
\* in the analyzer.
C28_SameBirthTick ==
    (phase = "gen" /\ cursor = Len(stream)) =>
        LET birth == book.order_add_timestamps
            order_lifecycle == build_order_lifecycle(stream)
        IN  \A id \in DOMAIN birth \cap DOMAIN order_lifecycle :
                birth[id] = order_lifecycle[id]

\* C29: a MODIFY delta whose new_order_id is 0 (quantity-only modify)
\* creates no new order id: once it is processed no order with id 0 is in
\* any price-level queue, in the registry, in the Book's birth_ts map or in
\* the analyzer's order-lifecycle map.
C29_NoOrderZero ==
    /\ 0 \notin QueuedIds(book)
    /\ 0 \notin DOMAIN book.registry
    /\ 0 \notin DOMAIN book.order_add_timestamps
    /\ 0 \notin DOMAIN build_order_lifecycle(stream)

\* ------------------------------------------------------------ navigation
\* C30: in interactive navigation, after any sequence of next (n), previous
\* (p) and jump-to-timestamp commands, idx stays within 0..len(index)-1,
\* current_deltas equals read_deltas_at_index(idx), and the book's
\* price-level queues (order ids and quantities in queue order), registry and
\* timestamp equal those of a fresh book rebuilt by applying
\* read_deltas_up_to_index(idx): stepping back with reverse deltas is
\* indistinguishable from a rebuild.
C30_NavigationIsRebuild ==
    phase = "cmd" =>
        /\ nav_idx \in 0..(Len(delta_index.timestamps) - 1)
        /\ current_deltas = read_deltas_at_index(idx_file, delta_index, nav_idx)
        /\ get_book_state(book) =
                get_book_state(rebuild_to_index(idx_file, delta_index, nav_idx))

\* -------------------------------------------------------- comparator, orders
\* an order of the state file and the order of the book at the same queue
\* position of the same level agree in the five compared fields and differ
\* in their timestamp
OnlyTimestampDiffers(cpp_state, py_books, py_pnl) ==
    /\ Agree(cpp_state, py_books, py_pnl)
    /\ \E inst \in DOMAIN py_books :
        \E sd \in {"bids", "asks"} :
            LET cpp_levels == cpp_state.order_books[inst][sd]
            IN  \E i \in 1..Len(cpp_levels) :
                    LET cpp_orders == cpp_levels[i].orders
                        py_orders  == py_books[inst][sd][cpp_levels[i].price]
                    IN  \E j \in 1..Len(cpp_orders) :
                            cpp_orders[j].timestamp # py_orders[j].timestamp

\* C31: the comparator validates each order's timestamp along with order_id,
\* client_id, quantity, price and side: a reference order and a replayed
\* order at the same queue position that differ only in timestamp produce a
\* difference and hence match = false.
C31_TimestampCompared ==
    \A r \in FullStateResults :
        OnlyTimestampDiffers(cmp_cpp_state, cmp_py_books, cmp_py_pnl)
            => (~r.match /\ r.differences # <<>>)

\* the differences of book comparisons made, each with the instrument whose
\* books were compared: every shared instrument of a compare_full_state
\* call, the one instrument of a compare_order_books call
BookDiffs ==
    LET shared == DOMAIN cmp_cpp_state.order_books \cap DOMAIN cmp_py_books
    IN  {<<inst, cmp_results[k].value.differences>> :
            inst \in shared,
            k \in {n \in 1..Len(cmp_results) :
                        cmp_results[n].call = "compare_full_state"}}
        \cup {<<inst, cmp_results[k].value>> :
                inst \in {x \in shared : shared = {x}},
                k \in {n \in 1..Len(cmp_results) :
                            cmp_results[n].call = "compare_order_books"}}

ComparedFields == {"order_id", "client_id", "quantity", "price", "side"}

\* the differences of one kind about level i (price cp in the state file) of
\* one side of one instrument
LevelPriceDiffs(diffs, inst, sn, i) ==
    {k \in 1..Len(diffs) :
        /\ Len(diffs[k]) = 6
        /\ ToString(diffs[k][3]) = ToString("level price")
        /\ diffs[k][1] = inst /\ diffs[k][2] = sn /\ diffs[k][4] = i - 1}

QueueLengthDiffs(diffs, inst, sn, cp) ==
    {k \in 1..Len(diffs) :
        /\ Len(diffs[k]) = 6
        /\ ToString(diffs[k][4]) = ToString("queue length")
        /\ diffs[k][1] = inst /\ diffs[k][2] = sn /\ diffs[k][3] = cp}

OrderDiffs(diffs, inst, sn, cp) ==
    {k \in 1..Len(diffs) :
        /\ Len(diffs[k]) = 4
        /\ diffs[k][2] \in ComparedFields
        /\ diffs[k][1][1] = inst /\ diffs[k][1][2] = sn /\ diffs[k][1][3] = cp}

\* one side of a book comparison, level by level
SideDiffsAsStated(diffs, inst, cpp_levels, py_book_side, side) ==
    LET sn        == IF side = "BUY" THEN "bid" ELSE "ask"
        py_prices == SortedKeys(py_book_side, side)
        Both      == IF Len(cpp_levels) < Len(py_prices) THEN Len(cpp_levels)
                     ELSE Len(py_prices)
    IN  \A i \in 1..Both :
            LET cp         == cpp_levels[i].price
                cpp_orders == cpp_levels[i].orders
                py_orders  == py_book_side[py_prices[i]]
                prices     == LevelPriceDiffs(diffs, inst, sn, i)
                lengths    == QueueLengthDiffs(diffs, inst, sn, cp)
                orders     == OrderDiffs(diffs, inst, sn, cp)
            IN  IF cp # py_prices[i]
                THEN Cardinality(prices) = 1 /\ lengths = {} /\ orders = {}
                ELSE IF Len(cpp_orders) # Len(py_orders)
                THEN prices = {} /\ Cardinality(lengths) = 1 /\ orders = {}
                ELSE /\ prices = {} /\ lengths = {}
                     /\ \A j \in 1..Len(cpp_orders), f \in ComparedFields :
                            Cardinality({k \in orders :
                                            /\ diffs[k][1][4] = j - 1
                                            /\ diffs[k][2] = f})
                            = IF cpp_orders[j][f] # py_orders[j][f] THEN 1 ELSE 0

\* C32: in the book diff of one side, a price mismatch at level i emits
\* exactly one difference for that level and none of that level's orders are
\* compared; a queue-length mismatch at a level emits exactly one difference
\* for that level and none of its orders are compared; otherwise each order
\* pair at the same queue index emits one difference per disagreeing field
\* among order_id, client_id, quantity, price and side; a mismatch at one
\* level does not stop the comparison of later levels.  (The levels of a
\* state file have distinct prices.)
C32_LevelByLevel ==
    \A bd \in BookDiffs :
        /\ SideDiffsAsStated(bd[2], bd[1], cmp_cpp_state.order_books[bd[1]].bids,
                             cmp_py_books[bd[1]].bids, "BUY")
        /\ SideDiffsAsStated(bd[2], bd[1], cmp_cpp_state.order_books[bd[1]].asks,
                             cmp_py_books[bd[1]].asks, "SELL")

\* the book of three bid levels has been compared with a state file that
\* gives its first level another price and its last level's order another
\* quantity and client: three differences, two of them about the last level
C32_Witness ==
    /\ cmp_py_books = MapPut(EmptyMap, 1, DeepBook)
    /\ cmp_cpp_state.order_books[1] =
            [BookJson(DeepBook) EXCEPT !.bids[1].price = 13,
                                       !.bids[3].orders[1].quantity = 2,
                                       !.bids[3].orders[1].client_id = 101]
    /\ Len(cmp_results) = 1
    /\ cmp_results[1].call = "compare_order_books"
    /\ Len(cmp_results[1].value) = 3
    /\ Cardinality(OrderDiffs(cmp_results[1].value, 1, "bid", 10)) = 2

\* ------------------------------------------------- validate_all, its loop
\* the result validate_all has just yielded
Yielded == results[Len(results)]

\* C33: if the states directory contains no snapshot file, validate_all
\* yields exactly one result with match = false, sequence_num = -1 and
\* timestamp = -1 and then stops; a snapshot file that cannot be found when
\* it is loaded yields one result with match = false for its sequence number,
\* applies no delta and no trade for it, and processing continues with the
\* next snapshot.
C33_NoFileNoReplay ==
    [][results' # results =>
        /\ Len(results') = Len(results) + 1
        /\ state_files' = <<>> =>
                /\ Len(results') = 1
                /\ ~results'[1].match
                /\ results'[1].sequence_num = -1
                /\ results'[1].timestamp = -1
                /\ pc' = "done"
                /\ applied_deltas' = <<>> /\ applied_trades' = <<>>
        /\ (state_files' # <<>> /\ ~cpp_states'[Len(cpp_states')].found) =>
                /\ ~results'[Len(results')].match
                /\ results'[Len(results')].sequence_num = state_files'[Len(results')]
                /\ applied_deltas' = applied_deltas
                /\ applied_trades' = applied_trades
                /\ delta_idx' = delta_idx /\ trade_idx' = trade_idx
                /\ pnl' = pnl
                /\ pc = "running" => books' = books
                /\ pc' = (IF Len(results') < Len(state_files') THEN "running"
                          ELSE "done")
    ]_vars

\* the first state file could not be loaded and gave a failure for its
\* sequence number; the second was then compared with deltas applied for it
C33_Witness ==
    /\ pc = "done"
    /\ Len(results) = 2
    /\ ~cpp_states[1].found
    /\ ~results[1].match /\ results[1].sequence_num = state_files[1]
    /\ cpp_states[2].found
    /\ results[2].match
    /\ applied_deltas # <<>>

\* the state files loaded so far carry ticks that do not decrease
TicksAscend ==
    \A i, j \in {k \in 1..Len(cpp_states) : cpp_states[k].found} :
        i < j => cpp_states[i].timestamp <= cpp_states[j].timestamp

\* C34: if snapshot timestamps are non-decreasing in snapshot sequence order,
\* then at the moment validate_all compares the snapshot with timestamp T no
\* delta and no trade with timestamp > T has been applied to any book or to
\* the PnL ledger.
C34_NothingAhead ==
    (Compared /\ TicksAscend) =>
        LET T == Last(cpp_states).timestamp
        IN  /\ \A i \in 1..Len(applied_deltas) : applied_deltas[i].delta.timestamp <= T
            /\ \A i \in 1..Len(applied_trades) : applied_trades[i].timestamp <= T
            /\ \A i \in 1..delta_idx : all_deltas[i].timestamp <= T
            /\ \A i \in 1..trade_idx : all_trades[i].timestamp <= T
            /\ books = BooksOf(applied_deltas, Len(applied_deltas))
            /\ pnl = LedgerOf(applied_trades, Len(applied_trades))

\* two snapshots of ascending ticks compared, the second of them while a
\* delta and a trade of a later tick wait in the files
C34_Witness ==
    /\ Compared /\ TicksAscend
    /\ Len(cpp_states) = 2
    /\ cpp_states[1].found
    /\ applied_deltas # <<>>
    /\ \E i \in 1..Len(deltas_file) :
            /\ deltas_file[i].timestamp > Last(cpp_states).timestamp
            /\ deltas_file[i].instrument_id \in instrument_ids
    /\ \E i \in 1..Len(trades_file) :
            trades_file[i].timestamp > Last(cpp_states).timestamp

\* the apply_delta calls the rows a..b of the sorted deltas give: those of
\* the configured instruments
CallsOf(all, a, b) ==
    LET rows == SelectSeq(SubSeq(all, a, b),
                          LAMBDA d : d.instrument_id \in instrument_ids)
    IN  [i \in 1..Len(rows) |-> [inst_id |-> rows[i].instrument_id, delta |-> rows[i]]]

\* C35: in validate_all, a delta whose instrument_id is not among the
\* validator's configured instrument ids is consumed without modifying any
\* book and is never revisited; the cursors delta_idx and trade_idx never
\* decrease, so every delta and every trade is consumed at most once across
\* all snapshots.
C35_CursorsAdvance ==
    [][/\ delta_idx' >= delta_idx
       /\ trade_idx' >= trade_idx
       /\ applied_deltas' = applied_deltas \o CallsOf(all_deltas', delta_idx + 1, delta_idx')
       /\ applied_trades' = applied_trades \o SubSeq(all_trades', trade_idx + 1, trade_idx')
       /\ pc' \in {"running", "done"} =>
            /\ books' = BooksOf(applied_deltas', Len(applied_deltas'))
            /\ \A i \in 1..Len(deltas_file) :
                 Occurrences(applied_deltas',
                     [inst_id |-> deltas_file[i].instrument_id,
                      delta |-> deltas_file[i]]) <= 1
            /\ \A i \in 1..Len(trades_file) :
                 Occurrences(applied_trades', trades_file[i]) <= 1
      ]_vars

\* a delta of an instrument that is not validated lies behind the cursor
\* after the first snapshot; deltas behind it were applied for the second
C35_Witness ==
    /\ pc = "done"
    /\ Len(cpp_states) = 2
    /\ cpp_states[1].found /\ cpp_states[2].found
    /\ \E i \in 1..delta_idx :
        /\ all_deltas[i].instrument_id \notin instrument_ids
        /\ all_deltas[i].timestamp <= cpp_states[1].timestamp
        /\ \A k \in 1..Len(applied_deltas) : applied_deltas[k].delta # all_deltas[i]
        /\ \E k \in (i + 1)..delta_idx :
              /\ all_deltas[k].instrument_id \in instrument_ids
              /\ all_deltas[k].timestamp > cpp_states[1].timestamp
    /\ trade_idx > 0

\* ------------------------------------------------------ ledger, any order
\* the orders in which n calls can be made
Orderings(n) ==
    {f \in [1..n -> 1..n] : \A i, j \in 1..n : f[i] = f[j] => i = j}

OnTradeOf(p, t) == on_trade(p, t.buyer_id, t.seller_id, t.price, t.quantity)

\* C36: the PnL ledger state reached after applying a given multiset of
\* trades with on_trade is independent of the order in which the trades are
\* applied (any two on_trade calls commute), so trades sharing a timestamp,
\* which the validator orders only by timestamp, give the same ledger
\* whichever is applied first.
C36_AnyOrder ==
    (pc = "off" /\ applied_trades # <<>>) =>
        /\ \A f \in Orderings(Len(applied_trades)) :
              LedgerOf([i \in 1..Len(applied_trades) |-> applied_trades[f[i]]],
                       Len(applied_trades)) = pnl
        /\ \A i, j \in 1..Len(applied_trades) :
              OnTradeOf(OnTradeOf(pnl, applied_trades[i]), applied_trades[j])
                = OnTradeOf(OnTradeOf(pnl, applied_trades[j]), applied_trades[i])

\* three trades at two prices: a participant bought, then sold, and one
\* traded with itself
C36_Witness ==
    /\ pc = "off"
    /\ Len(applied_trades) = 3
    /\ applied_trades[1].buyer_id = 1 /\ applied_trades[1].seller_id = 2
    /\ applied_trades[2].buyer_id = 3 /\ applied_trades[2].seller_id = 1
    /\ applied_trades[3].buyer_id = 1 /\ applied_trades[3].seller_id = 1
    /\ applied_trades[1].price # applied_trades[2].price
    /\ \A i \in 1..3 : applied_trades[i].quantity > 0
    /\ pnl[1].long_position > 0 /\ pnl[1].short_position > 0 /\ pnl[1].cash # 0

\* ------------------------------------------------- the two OrderBook classes
\* C37: the two OrderBook implementations (tools/visualize_book.py and
\* tools/visualizer/order_book.py) are behaviourally identical: starting from
\* empty books, the same sequence of apply_delta and apply_reverse_delta
\* calls leaves both with equal price-level queues, registry, birth_ts map
\* and timestamp after every call.  (Both start empty; whenever the two are
\* equal before a call, they are equal after it.)
C37_SameBook ==
    [][/\ cursor' = cursor + 1 =>
            book' = OB_apply_delta(book, stream'[cursor'])
       /\ cursor' = cursor - 1 =>
            book' = OB_apply_reverse_delta(book, stream[cursor], states[cursor].timestamp)
      ]_vars

\* an order cancelled at the second tick has been put back by
\* apply_reverse_delta ahead of an order that came to its level later
C37_Witness ==
    /\ phase = "rev"
    /\ cursor < Len(stream)
    /\ stream[cursor + 1].delta_type = "CANCEL"
    /\ LET d == stream[cursor + 1]
           q == MapGet(_get_book(book, d.side), d.price, <<>>)
       IN  /\ Len(q) >= 2
           /\ q[1].order_id = d.order_id
           /\ q[1].timestamp < q[2].timestamp

\* ------------------------------------------------------------------ harness
\* C38: HarnessResult.success is true if and only if no test has status
\* FAILED and no test has status ERROR; SKIPPED tests and an empty test list
\* count as success, and the harness exit code is 0 exactly when success is
\* true and 1 otherwise.
C38_ExitIffSuccess ==
    exit_code # -1 =>
        LET clean == \A i \in 1..Len(tests) : tests[i].status \notin {"FAILED", "ERROR"}
        IN  /\ success(tests) <=> clean
            /\ (tests = <<>> => success(tests))
            /\ ((\A i \in 1..Len(tests) : tests[i].status = "SKIPPED") => success(tests))
            /\ exit_code \in {0, 1}
            /\ exit_code = 0 <=> success(tests)

\* a run whose first directory passed and whose second gave an ERROR ended
\* with exit code 1
C38_Witness ==
    /\ exit_code = 1
    /\ Len(tests) = 2
    /\ tests[1].status = "PASSED"
    /\ tests[2].status = "ERROR"

\* C39: _validate_test_output returns status ERROR when deltas.csv is
\* missing, when the states directory is missing, or when validation raises
\* an exception; FAILED when at least one ComparisonResult has match = false,
\* with state_failures equal to the number of such results and
\* state_comparisons equal to the number of results; and PASSED only when
\* every result matched; it never propagates an exception to the caller.
C39_StatusOfValidation ==
    \A k \in 1..Len(validated) :
        LET d       == validated[k].test_dir
            r       == validated[k].result
            yielded == d.validation.results
            misses  == {i \in 1..Len(yielded) : ~yielded[i].match}
            ran     == d.deltas /\ d.states /\ ~d.validation.raises
        IN  /\ r.status \in {"PASSED", "FAILED", "ERROR"}
            /\ (~d.deltas \/ ~d.states \/ d.validation.raises) => r.status = "ERROR"
            /\ (ran /\ misses # {}) =>
                    /\ r.status = "FAILED"
                    /\ r.state_failures = Cardinality(misses)
                    /\ r.state_comparisons = Len(yielded)
            /\ r.status = "PASSED" => (ran /\ yielded # <<>> /\ misses = {})

\* a directory whose first result failed and whose last matched was reported
\* FAILED with one failure of two comparisons
C39_Witness ==
    \E k \in 1..Len(validated) :
        LET d == validated[k].test_dir
        IN  /\ d.deltas /\ d.states /\ ~d.validation.raises
            /\ Len(d.validation.results) = 2
            /\ ~d.validation.results[1].match
            /\ d.validation.results[2].match
            /\ validated[k].result.status = "FAILED"
            /\ validated[k].result.state_failures = 1
            /\ validated[k].result.state_comparisons = 2

\* sum of the count fields of a stats_list
RECURSIVE CountsOf(_)
CountsOf(stats_list) ==
    IF stats_list = <<>> THEN 0
    ELSE Head(stats_list).count + CountsOf(Tail(stats_list))

\* C40: with b >= 1 buckets, the boundaries compute_summary returns are
\* observed quote ages in non-decreasing order, b - 1 of them when there is
\* a fill; assign_bucket gives every fill the index that is the number of
\* boundaries <= its quote age, which is in 0..b-1; the count reported for a
\* bucket is the number of fills assigned to it, and the counts sum to the
\* number of fills
C40_BucketsPartition ==
    (summary # <<>> /\ buckets >= 1) =>
        LET boundaries == summary[1].boundaries
            stats_list == summary[1].stats_list
            bucket(k) == assign_bucket(sum_fills[k].quote_age, boundaries)
        IN  /\ \A i \in 1..(Len(boundaries) - 1) : boundaries[i] <= boundaries[i + 1]
            /\ \A i \in 1..Len(boundaries) :
                   \E k \in 1..Len(sum_fills) : sum_fills[k].quote_age = boundaries[i]
            /\ sum_fills # <<>> => Len(boundaries) = buckets - 1
            /\ \A k \in 1..Len(sum_fills) :
                   /\ bucket(k) \in 0..(buckets - 1)
                   /\ bucket(k) = Cardinality({i \in 1..Len(boundaries) :
                                      boundaries[i] <= sum_fills[k].quote_age})
            /\ Len(stats_list) = buckets
            /\ \A b \in 0..(buckets - 1) :
                   stats_list[b + 1].count =
                       Cardinality({k \in 1..Len(sum_fills) : bucket(k) = b})
            /\ CountsOf(stats_list) = Len(sum_fills)

\* four buckets over four fills of which three have the same quote age: two
\* boundaries are equal, a bucket is empty and another holds three fills
C40_Witness ==
    /\ summary # <<>>
    /\ buckets = 4
    /\ Len(sum_fills) = 4
    /\ summary[1].boundaries = <<1, 1, 2>>
    /\ summary[1].stats_list[1].count = 0
    /\ summary[1].stats_list[3].count = 3
    /\ summary[1].stats_list[4].count = 1

====
